---- MODULE Spec2Model ----
(***************************************************************************)
(* A model of the astrodynamics core of the orbits repository              *)
(* (src/astro/afunc.py, transf.py, vectors.py, maneuvers.py).              *)
(*                                                                         *)
(* Python floats are modelled as fixed-point numbers: the integer n stands *)
(* for the real n / SCALE.  Lengths are in canonical distance units,       *)
(* times in canonical time units and the gravitational parameter is of     *)
(* order 1, so that every intermediate value stays far inside 32 bits.     *)
(* Angles are radians (fixed-point as well).  Vectors are 3-tuples.        *)
(***************************************************************************)
EXTENDS Integers, Sequences, FiniteSets, TLC

\* ------------------------------------------------------------------------
\* Fixed-point arithmetic standing for Python's float arithmetic.  The
\* operations are functions on Int, applied as Mul[a, b]: a function is
\* applied to the value of its argument, as a Python call is.
\* ------------------------------------------------------------------------

KILO == 10 * 10 * 10
SCALE == KILO * KILO

Abs(a) == IF a < 0 THEN -a ELSE a

\* numpy.sign
Sign(a) == IF a > 0 THEN 1 ELSE IF a < 0 THEN -1 ELSE 0

\* n / d on integers, rounded to nearest (d # 0)
RDiv[n \in Int, d \in Int] == Sign(n) * Sign(d) * ((Abs(n) + Abs(d) \div 2) \div Abs(d))

\* a * b on fixed-point numbers, without leaving 32 bits
MulAbs(a, b) ==
    LET a1 == a \div KILO
        a0 == a % KILO
        b1 == b \div KILO
        b0 == b % KILO
    IN  a1 * b1 + ((a1 * b0 + a0 * b1 + (a0 * b0 + KILO \div 2) \div KILO + KILO \div 2) \div KILO)

Mul[a \in Int, b \in Int] == Sign(a) * Sign(b) * MulAbs(Abs(a), Abs(b))

\* the fractional digits of r / b (0 <= r < b), n decimal digits, after acc
LongDiv[r \in Int, b \in Int, n \in Int, acc \in Int] ==
    IF n = 0 THEN acc + (IF 2 * r >= b THEN 1 ELSE 0)
    ELSE LongDiv[(r * 10) % b, b, n - 1, acc * 10 + (r * 10) \div b]

\* a / b on fixed-point numbers (b # 0)
DivAbs(a, b) == LongDiv[a % b, b, 6, a \div b]

Div[a \in Int, b \in Int] == Sign(a) * Sign(b) * DivAbs(Abs(a), Abs(b))

\* floor of the square root of an integer 0 <= n < 2^31
SqrtIter[n \in Int, lo \in Int, hi \in Int] ==
    IF lo >= hi THEN lo
    ELSE LET mid == (lo + hi + 1) \div 2
         IN  IF mid * mid <= n THEN SqrtIter[n, mid, hi] ELSE SqrtIter[n, lo, mid - 1]

ISqrt(n) == SqrtIter[n, 0, 46340]

\* v ** 0.5 on a fixed-point number v >= 0: the integer root, then two Newton steps
Sqrt[v \in Int] ==
    IF v <= 0 THEN 0
    ELSE LET r0 == ISqrt(v) * KILO
             r1 == (r0 + Div[v, r0]) \div 2
             r2 == (r1 + Div[v, r1]) \div 2
         IN  r2

\* math.pi
PI == 3141593
TWO_PI == 2 * PI
HALF_PI == PI \div 2

\* 1 + sg*w2/(d_k) * (1 + sg*w2/(d_k+1) * (...)), d_k = (2k-1+odd)(2k+odd):
\* the Maclaurin series of cos, sin/w (sg = -1) and cosh, sinh/w (sg = 1)
Series[w2 \in Int, k \in Int, sg \in Int, odd \in Int, n \in Int] ==
    IF k > n THEN SCALE
    ELSE SCALE + sg * RDiv[Mul[w2, Series[w2, k + 1, sg, odd, n]], (2 * k - 1 + odd) * (2 * k + odd)]

CosSeries(w) == Series[Mul[w, w], 1, -1, 0, 7]
SinSeries(w) == Mul[w, Series[Mul[w, w], 1, -1, 1, 7]]

\* math.cos, math.sin: the argument reduced to the first quadrant
Cos[a \in Int] ==
    LET r == a % TWO_PI
    IN  IF r <= HALF_PI THEN CosSeries(r)
        ELSE IF r <= PI THEN -CosSeries(PI - r)
        ELSE IF r <= PI + HALF_PI THEN -CosSeries(r - PI)
        ELSE CosSeries(TWO_PI - r)

Sin[a \in Int] ==
    LET r == a % TWO_PI
    IN  IF r <= HALF_PI THEN SinSeries(r)
        ELSE IF r <= PI THEN SinSeries(PI - r)
        ELSE IF r <= PI + HALF_PI THEN -SinSeries(r - PI)
        ELSE -SinSeries(TWO_PI - r)

\* math.cosh, math.sinh
Cosh[w \in Int] == Series[Mul[w, w], 1, 1, 0, 16]
Sinh[w \in Int] == Mul[w, Series[Mul[w, w], 1, 1, 1, 16]]

\* math.acos on [-1, 1]: the least angle of [0, pi] whose cosine is <= x
AcosIter[x \in Int, lo \in Int, hi \in Int] ==
    IF lo >= hi THEN lo
    ELSE LET mid == (lo + hi) \div 2
         IN  IF Cos[mid] <= x THEN AcosIter[x, lo, mid] ELSE AcosIter[x, mid + 1, hi]

Acos[x \in Int] ==
    IF x >= SCALE THEN 0
    ELSE IF x <= -SCALE THEN PI
    ELSE AcosIter[x, 0, PI]

\* numpy.dot, numpy.cross, numpy.linalg.norm and scalar * vector on 3-vectors
Dot(a, b) == Mul[a[1], b[1]] + Mul[a[2], b[2]] + Mul[a[3], b[3]]
Cross(a, b) == << Mul[a[2], b[3]] - Mul[a[3], b[2]],
                  Mul[a[3], b[1]] - Mul[a[1], b[3]],
                  Mul[a[1], b[2]] - Mul[a[2], b[1]] >>
Norm(a) == Sqrt[Dot(a, a)]
Scale3(k, a) == << Mul[k, a[1]], Mul[k, a[2]], Mul[k, a[3]] >>
Add3(a, b) == << a[1] + b[1], a[2] + b[2], a[3] + b[3] >>
Sub3(a, b) == << a[1] - b[1], a[2] - b[2], a[3] - b[3] >>
\* matrix.dot(vector) for a 3x3 matrix given as a tuple of rows
MatVec(m, v) == << Dot(m[1], v), Dot(m[2], v), Dot(m[3], v) >>

\* ------------------------------------------------------------------------
\* The part of the float range the model follows
\* ------------------------------------------------------------------------

\* a quotient is followed while it stays below QuotMax, a universal variable
\* x while |x| <= XMax and a Stumpff argument z while z = 0 or
\* ZMin <= |z| <= ZMax; a call that leaves this range ends "unmodelled"
QuotMax == 2000
XMax == 10 * SCALE
ZMax == 30 * SCALE
XSqMax == (XMax \div SCALE) * (XMax \div SCALE)
ZMin == SCALE \div 100

\* kepler_problem is followed down to |z| = KeplerZMin, where z**(3/2) is
\* one unit of the last digit
KeplerZMin == SCALE \div 10000
KeplerZOK(z) == z = 0 \/ (KeplerZMin <= Abs(z) /\ Abs(z) <= ZMax)

DivOK(a, b) == b # 0 /\ Abs(b) <= 200 * SCALE /\ Abs(a) \div Abs(b) < QuotMax
ZOK(z) == z = 0 \/ (ZMin <= Abs(z) /\ Abs(z) <= ZMax)

\* ------------------------------------------------------------------------
\* afunc.py: kepler_problem and gauss_problem
\* ------------------------------------------------------------------------

\* gravitational_parameter in canonical units
Mu == SCALE

\* the c and s of the universal variable formulation for z = 0, z > 0, z < 0;
\* z**(3/2) and ((-z)**3)**0.5 are taken as |z| * |z|**0.5
StumpffC(z) ==
    IF z = 0 THEN SCALE \div 2
    ELSE IF z > 0 THEN Div[SCALE - Cos[Sqrt[z]], z]
    ELSE Div[SCALE - Cosh[Sqrt[-z]], z]

StumpffS(z) ==
    IF z = 0 THEN RDiv[SCALE, 6]
    ELSE IF z > 0 THEN Div[Sqrt[z] - Sin[Sqrt[z]], Mul[z, Sqrt[z]]]
    ELSE Div[Sinh[Sqrt[-z]] - Sqrt[-z], Mul[-z, Sqrt[-z]]]

\* a faulty convergence test that forgets the lower limit
ConvergedBelow(flight_time, uncertainty, t) == t < flight_time + uncertainty

\* flight_time - uncertainty < t < flight_time + uncertainty
Converged(flight_time, uncertainty, t) ==
    flight_time - uncertainty < t /\ t < flight_time + uncertainty

\* a local variable that has not been assigned yet
Unset == -(KILO * SCALE)
\* a float that is inf or nan
NaN == -(KILO * SCALE) - 1

\* kepler_problem up to the while loop: the frame of the call
KeplerCall(position_vector, velocity_vector, flight_time, trial_variable, uncertainty) ==
    LET position_magnitude == Norm(position_vector)
        velocity_magnitude == Norm(velocity_vector)
    IN  [ position_vector |-> position_vector,
          velocity_vector |-> velocity_vector,
          flight_time |-> flight_time,
          uncertainty |-> uncertainty,
          universal_variable |-> trial_variable,
          position_magnitude |-> position_magnitude,
          reciprocal_semi_major_axis |->
              Div[-(Mul[velocity_magnitude, velocity_magnitude]
                    - Div[2 * Mu, position_magnitude]), Mu],
          z |-> Unset, c |-> Unset, s |-> Unset, t |-> Unset,
          pc |-> "loop", ret |-> << >> ]

\* one pass of the while loop of kepler_problem: g is the frame that the pass
\* makes of the frame f (each local is bound as soon as the code assigns it)
KeplerPass(f, g) ==
    LET x == f.universal_variable
        rm == f.position_magnitude
        alpha == f.reciprocal_semi_major_axis
    IN  IF Abs(x) > XMax
        THEN g = [f EXCEPT !.pc = "unmodelled"]
        ELSE \E rv \in {Dot(f.position_vector, f.velocity_vector)}, smu \in {Sqrt[Mu]},
                x2 \in {Mul[x, x]} :
             \E x3 \in {Mul[x2, x]}, z \in {Mul[alpha, x2]} :
             IF ~KeplerZOK(z)
             THEN g = [f EXCEPT !.pc = "unmodelled"]
             ELSE \E c \in {StumpffC(z)}, s \in {StumpffS(z)} :
                  \E t \in {Div[Mul[Mul[rv, x2], c], Mu]
                            + Div[Mul[Mul[SCALE - Mul[rm, alpha], x3], s], smu]
                            + Div[Mul[rm, x], smu]} :
                  IF Converged(f.flight_time, f.uncertainty, t)
                  THEN g = [f EXCEPT !.z = z, !.c = c, !.s = s, !.t = t, !.pc = "done"]
                  ELSE \E dtdx \in {Div[Mul[x2, c], smu]
                                    + Div[Mul[Mul[rv, x], SCALE - Mul[z, s]], Mu]
                                    + Div[Mul[rm, SCALE - Mul[z, c]], smu]} :
                       IF ~DivOK(f.flight_time - t, dtdx)
                       THEN g = [f EXCEPT !.z = z, !.c = c, !.s = s, !.t = t,
                                          !.pc = "unmodelled"]
                       ELSE g = [f EXCEPT !.z = z, !.c = c, !.s = s, !.t = t,
                                          !.universal_variable =
                                              x + Div[f.flight_time - t, dtdx]]

\* kepler_problem after the loop: f and g, the final vectors and the check
KeplerResult(f) ==
    LET x == f.universal_variable
        rm == f.position_magnitude
        smu == Sqrt[Mu]
        x2 == Mul[x, x]
        ff == SCALE - Div[Mul[f.c, x2], rm]
        g == f.t - Div[Mul[f.s, Mul[x2, x]], smu]
        position_vector_final == Add3(Scale3(ff, f.position_vector), Scale3(g, f.velocity_vector))
        position_magnitude_final == Norm(position_vector_final)
        dfdt == Div[Mul[Mul[smu, x], Mul[f.z, f.s] - SCALE], Mul[rm, position_magnitude_final]]
        dgdt == SCALE - Div[Mul[f.c, x2], position_magnitude_final]
        velocity_vector_final == Add3(Scale3(dfdt, f.position_vector), Scale3(dgdt, f.velocity_vector))
        check == Mul[ff, dgdt] - Mul[dfdt, g]
    IN  IF position_magnitude_final = 0
        THEN << << NaN, NaN, NaN >>, << NaN, NaN, NaN >>, x, NaN >>
        ELSE << position_vector_final, velocity_vector_final, x, check >>

\* a faulty direction_of_motion that ignores the short flag
DirectionOfMotionShort(short, theta) == Sign(PI - theta)

\* direction_of_motion: numpy.sign(math.pi - theta) on the short path,
\* numpy.sign(theta - math.pi) on the long one
DirectionOfMotion(short, theta) ==
    IF short THEN Sign(PI - theta) ELSE Sign(theta - PI)

\* a faulty guard that lets every y through
YUnchecked(y) == TRUE

\* numpy.sign(y) >= 0, the test that guards x = (y/c)**0.5
YNonNegative(y) == Sign(y) >= 0

\* dtdz, from the values of one pass
GaussDtdz(a, z, c, s, y, x) ==
    LET x3 == Mul[Mul[x, x], x]
        dcdz == IF z = 0 THEN RDiv[SCALE, 24] ELSE Div[SCALE - Mul[z, s] - 2 * c, 2 * z]
        dsdz == IF z = 0 THEN RDiv[SCALE, 120] ELSE Div[c - 3 * s, 2 * z]
    IN  Mul[Sqrt[Div[SCALE, Mu]],
            Mul[x3, dsdz - Mul[Div[Mul[3 * s, dcdz], 2 * SCALE], c]]
            + Mul[Div[a, 8 * SCALE], Div[Mul[3 * s, Sqrt[y]], c] + Div[a, x]]]

\* a faulty update that adds on both paths
GaussUpdateAdd(short, z, step) == z + step

\* the Newton update of the universal variable: += on the short path, -= on the long one
GaussUpdate(short, z, step) == IF short THEN z + step ELSE z - step

\* gauss_problem up to the while loop: the frame of the call, or the
\* ValueError of math.acos when the rounded cosine leaves [-1, 1]
GaussCall(initial_position, final_position, flight_time, trial_variable, uncertainty, short) ==
    LET initial_magnitude == Norm(initial_position)
        final_magnitude == Norm(final_position)
        cos_theta == Div[Dot(initial_position, final_position),
                         Mul[initial_magnitude, final_magnitude]]
        theta == Acos[cos_theta]
        direction_of_motion == DirectionOfMotion(short, theta)
        domain == Abs(cos_theta) <= SCALE
    IN  [ initial_position |-> initial_position,
          final_position |-> final_position,
          flight_time |-> flight_time,
          uncertainty |-> uncertainty,
          short |-> short,
          universal_variable |-> trial_variable,
          initial_magnitude |-> initial_magnitude,
          final_magnitude |-> final_magnitude,
          theta |-> IF domain THEN theta ELSE Unset,
          direction_of_motion |-> IF domain THEN direction_of_motion ELSE Unset,
          a |-> IF domain
                THEN direction_of_motion
                     * Sqrt[Mul[Mul[initial_magnitude, final_magnitude], SCALE + Cos[theta]]]
                ELSE Unset,
          c |-> Unset, s |-> Unset, y |-> Unset, x |-> Unset, t |-> Unset,
          pc |-> IF domain THEN "loop" ELSE "raised",
          error |-> IF domain THEN "" ELSE "math domain error",
          ret |-> << >> ]

\* one pass of the while loop of gauss_problem: g is the frame that the pass
\* makes of the frame f (each local is bound as soon as the code assigns it)
GaussPass(f, g) ==
    LET z == f.universal_variable
        a == f.a
    IN  IF ~ZOK(z)
        THEN g = [f EXCEPT !.pc = "unmodelled"]
        ELSE \E c \in {StumpffC(z)}, s \in {StumpffS(z)} :
             IF c <= 0
             THEN g = [f EXCEPT !.c = c, !.s = s, !.pc = "unmodelled"]
             ELSE \E y \in {f.initial_magnitude + f.final_magnitude
                            - Div[Mul[a, SCALE - Mul[z, s]], Sqrt[c]]} :
                  IF ~YNonNegative(y)
                  THEN g = [f EXCEPT !.c = c, !.s = s, !.y = y, !.pc = "raised",
                                     !.error = "y cannot be a negative value"]
                  ELSE IF ~(y \div c < XSqMax)
                  THEN g = [f EXCEPT !.c = c, !.s = s, !.y = y, !.pc = "unmodelled"]
                  ELSE \E x \in {Sqrt[Div[y, c]]} :
                       \E t \in {Mul[Div[SCALE, Sqrt[Mu]],
                                     Mul[Mul[Mul[x, x], x], s] + Mul[a, Sqrt[y]]]} :
                       IF Converged(f.flight_time, f.uncertainty, t)
                       THEN g = [f EXCEPT !.c = c, !.s = s, !.y = y, !.x = x, !.t = t,
                                          !.pc = "done"]
                       ELSE IF ~DivOK(a, x) \/ ~DivOK(Mul[3 * s, Sqrt[y]], c)
                       THEN g = [f EXCEPT !.c = c, !.s = s, !.y = y, !.x = x, !.t = t,
                                          !.pc = "unmodelled"]
                       ELSE \E dtdz \in {GaussDtdz(a, z, c, s, y, x)} :
                            IF ~DivOK(f.flight_time - t, dtdz)
                            THEN g = [f EXCEPT !.c = c, !.s = s, !.y = y, !.x = x, !.t = t,
                                               !.pc = "unmodelled"]
                            ELSE g = [f EXCEPT !.c = c, !.s = s, !.y = y, !.x = x, !.t = t,
                                               !.universal_variable =
                                                   GaussUpdate(f.short, z,
                                                               Div[f.flight_time - t, dtdz])]

\* gauss_problem after the loop: f, g, dgdt and the two velocities; a zero g
\* makes numpy divide by zero, and the vectors are not finite
GaussNumerators(f) ==
    LET ff == SCALE - Div[f.y, f.initial_magnitude]
        dgdt == SCALE - Div[f.y, f.final_magnitude]
    IN  << Sub3(f.final_position, Scale3(ff, f.initial_position)),
           Sub3(Scale3(dgdt, f.final_position), f.initial_position) >>

GaussG(f) == Mul[f.a, Sqrt[Div[f.y, Mu]]]

GaussResult(f) ==
    LET num == GaussNumerators(f)
        g == GaussG(f)
    IN  IF g = 0
        THEN << << NaN, NaN, NaN >>, << NaN, NaN, NaN >>, f.universal_variable >>
        ELSE << << Div[num[1][1], g], Div[num[1][2], g], Div[num[1][3], g] >>,
                << Div[num[2][1], g], Div[num[2][2], g], Div[num[2][3], g] >>,
                f.universal_variable >>

\* ------------------------------------------------------------------------
\* Python values that are no number
\* ------------------------------------------------------------------------

\* None, the result of adding None to a number (TypeError), and math.acos
\* of a value outside [-1, 1] (ValueError)
None == -(KILO * SCALE) - 2
TypeError == -(KILO * SCALE) - 3
ValueError == -(KILO * SCALE) - 4

\* a complex number (a negative float ** 0.5), and a division by zero
Complex == -(KILO * SCALE) - 5
ZeroDivisionError == -(KILO * SCALE) - 6

\* a + b in Python
PyAdd(a, b) ==
    IF a \in {None, TypeError} \/ b \in {None, TypeError} THEN TypeError
    ELSE IF a = ValueError \/ b = ValueError THEN ValueError
    ELSE a + b

\* math.acos: a cosine that rounding carried past 1 by a few units of the last
\* digit is taken as 1
RoundingSlack == 100
math_acos(x) == IF Abs(x) > SCALE + RoundingSlack THEN ValueError ELSE Acos[x]

\* math.radians
math_radians(d) == RDiv[Mul[d, PI], 180]

\* ------------------------------------------------------------------------
\* afunc.py: the orbit formulas
\* ------------------------------------------------------------------------

orbital_radius(semi_latus_rectum, eccentricity, true_anomaly) ==
    Div[semi_latus_rectum, SCALE + Mul[eccentricity, Cos[true_anomaly]]]

\* (...)**0.5 of a negative float is a complex number, not an error
vis_viva(radius, semi_major_axis, gravitational_parameter) ==
    LET radicand == Mul[gravitational_parameter, Div[2 * SCALE, radius] - Div[SCALE, semi_major_axis]]
    IN  IF radicand < 0 THEN Complex ELSE Sqrt[radicand]

circular_speed(radius, gravitational_parameter) ==
    Sqrt[Div[gravitational_parameter, radius]]

angular_momentum(position_vector, velocity_vector) ==
    Cross(position_vector, velocity_vector)

node_vector(specific_angular_momentum_vector) ==
    Cross(<< 0, 0, SCALE >>, specific_angular_momentum_vector)

\* called with magnitudes=True
eccentricity_vector(position_vector, velocity_vector, gravitational_parameter, position_mag, velocity_mag) ==
    Scale3(Div[SCALE, gravitational_parameter],
           Sub3(Scale3(Mul[velocity_mag, velocity_mag]
                       - Div[gravitational_parameter, position_mag], position_vector),
                Scale3(Dot(position_vector, velocity_vector), velocity_vector)))

\* x**2 / gravitational_parameter, on a number
semi_latus_rectum(x, gravitational_parameter) == Div[Mul[x, x], gravitational_parameter]

\* semi_major_axis(radii=True, radius_one=..., radius_two=...)
semi_major_axis_radii(radius_one, radius_two) == RDiv[radius_one + radius_two, 2]

\* ------------------------------------------------------------------------
\* transf.py: perifocal to geocentric-equatorial, as tuples of rows
\* ------------------------------------------------------------------------

peri_to_geo(inclination, longitude_of_ascending_node, periapsis_angle) ==
    LET ci == Cos[inclination]
        si == Sin[inclination]
        cO == Cos[longitude_of_ascending_node]
        sO == Sin[longitude_of_ascending_node]
        cw == Cos[periapsis_angle]
        sw == Sin[periapsis_angle]
    IN  << << Mul[cO, cw] - Mul[Mul[sO, sw], ci],
              Mul[-cO, sw] - Mul[Mul[sO, cw], ci],
              Mul[sO, si] >>,
           << Mul[sO, cw] + Mul[Mul[cO, sw], ci],
              Mul[-sO, sw] + Mul[Mul[cO, cw], ci],
              Mul[-cO, si] >>,
           << Mul[sw, si], Mul[cw, si], ci >> >>

peri_to_geo_e(inclination, longitude_of_ascending_node) ==
    LET ci == Cos[inclination]
        si == Sin[inclination]
        cO == Cos[longitude_of_ascending_node]
        sO == Sin[longitude_of_ascending_node]
    IN  << << cO, Mul[-sO, ci], Mul[sO, si] >>,
           << sO, Mul[cO, ci], Mul[-cO, si] >>,
           << 0, si, ci >> >>

peri_to_geo_i(periapsis_angle) ==
    << << Cos[periapsis_angle], -Sin[periapsis_angle], 0 >>,
       << Sin[periapsis_angle], Cos[periapsis_angle], 0 >>,
       << 0, 0, SCALE >> >>

\* ------------------------------------------------------------------------
\* vectors.py: Elements
\* ------------------------------------------------------------------------

\* _chosen_matrix = None
NoMatrix == << >>

\* Elements.__init__ (the attributes are named without their leading underscore)
Elements(semi_latus_rectum_, eccentricity, inclination, longitude_of_ascending_node, periapsis_angle, epoch_angle, gravitational_parameter, degrees) ==
    [ semi_latus_rectum |-> semi_latus_rectum_,
      eccentricity |-> eccentricity,
      inclination |-> inclination,
      longitude_of_ascending_node |-> longitude_of_ascending_node,
      periapsis_angle |-> periapsis_angle,
      epoch_angle |-> epoch_angle,
      gravitational_parameter |-> gravitational_parameter,
      degrees |-> degrees,
      chosen_matrix |-> NoMatrix ]

\* Elements.__deg
Elements_deg(self, attr) == IF self.degrees THEN math_radians(attr) ELSE attr

\* the properties inclination, longitude_of_ascending_node, periapsis_angle, epoch_angle
Elements_inclination(self) == Elements_deg(self, self.inclination)
Elements_longitude_of_ascending_node(self) == Elements_deg(self, self.longitude_of_ascending_node)
Elements_periapsis_angle(self) == Elements_deg(self, self.periapsis_angle)
Elements_epoch_angle(self) == Elements_deg(self, self.epoch_angle)

\* math.sin(x) == 0 for a float x of [0, 2*pi]: true of 0.0 alone, since
\* math.sin(math.pi) is 1.2e-16 and math.sin(2*math.pi) is -2.4e-16
SinIsZero(x) == x = 0

\* a faulty __vector_conditions with the tests of the two middle branches exchanged
Elements_vector_conditions_exchanged(self, vector) ==
    LET i == Elements_inclination(self)
    IN  IF self.eccentricity # 0 /\ ~SinIsZero(i)
        THEN LET m == peri_to_geo(i, Elements_longitude_of_ascending_node(self),
                                  Elements_periapsis_angle(self))
             IN  [branch |-> "peri_to_geo", chosen_matrix |-> m, value |-> MatVec(m, vector)]
        ELSE IF self.eccentricity = 0 /\ ~SinIsZero(i)
        THEN LET m == peri_to_geo_i(Elements_periapsis_angle(self))
             IN  [branch |-> "peri_to_geo_i", chosen_matrix |-> m, value |-> MatVec(m, vector)]
        ELSE IF self.eccentricity # 0 /\ SinIsZero(i)
        THEN LET m == peri_to_geo_e(i, Elements_longitude_of_ascending_node(self))
             IN  [branch |-> "peri_to_geo_e", chosen_matrix |-> m, value |-> MatVec(m, vector)]
        ELSE [branch |-> "vector", chosen_matrix |-> self.chosen_matrix, value |-> vector]

\* a faulty __vector_conditions whose stored matrix depends on the vector
Elements_vector_conditions_per_vector(self, vector) ==
    LET i == Elements_inclination(self)
        for(m) == IF vector[1] < 0 THEN peri_to_geo_i(0) ELSE m
    IN  IF self.eccentricity # 0 /\ ~SinIsZero(i)
        THEN LET m == for(peri_to_geo(i, Elements_longitude_of_ascending_node(self),
                                      Elements_periapsis_angle(self)))
             IN  [branch |-> "peri_to_geo", chosen_matrix |-> m, value |-> MatVec(m, vector)]
        ELSE IF self.eccentricity # 0 /\ SinIsZero(i)
        THEN LET m == for(peri_to_geo_i(Elements_periapsis_angle(self)))
             IN  [branch |-> "peri_to_geo_i", chosen_matrix |-> m, value |-> MatVec(m, vector)]
        ELSE IF self.eccentricity = 0 /\ ~SinIsZero(i)
        THEN LET m == for(peri_to_geo_e(i, Elements_longitude_of_ascending_node(self)))
             IN  [branch |-> "peri_to_geo_e", chosen_matrix |-> m, value |-> MatVec(m, vector)]
        ELSE [branch |-> "vector", chosen_matrix |-> self.chosen_matrix, value |-> vector]

\* Elements.__vector_conditions: the branch taken, the _chosen_matrix it
\* leaves in the instance, and the vector it returns
Elements_vector_conditions(self, vector) ==
    LET i == Elements_inclination(self)
    IN  IF self.eccentricity # 0 /\ ~SinIsZero(i)
        THEN LET m == peri_to_geo(i, Elements_longitude_of_ascending_node(self),
                                  Elements_periapsis_angle(self))
             IN  [branch |-> "peri_to_geo", chosen_matrix |-> m, value |-> MatVec(m, vector)]
        ELSE IF self.eccentricity # 0 /\ SinIsZero(i)
        THEN LET m == peri_to_geo_i(Elements_periapsis_angle(self))
             IN  [branch |-> "peri_to_geo_i", chosen_matrix |-> m, value |-> MatVec(m, vector)]
        ELSE IF self.eccentricity = 0 /\ ~SinIsZero(i)
        THEN LET m == peri_to_geo_e(i, Elements_longitude_of_ascending_node(self))
             IN  [branch |-> "peri_to_geo_e", chosen_matrix |-> m, value |-> MatVec(m, vector)]
        ELSE [branch |-> "vector", chosen_matrix |-> self.chosen_matrix, value |-> vector]

\* the perifocal vectors that position and velocity hand to __vector_conditions
Elements_position_vector(self) ==
    LET nu == Elements_epoch_angle(self)
        position_magnitude == orbital_radius(self.semi_latus_rectum, self.eccentricity, nu)
    IN  Scale3(position_magnitude, << Cos[nu], Sin[nu], 0 >>)

Elements_velocity_vector(self) ==
    LET nu == Elements_epoch_angle(self)
        velocity_magnitude == Sqrt[Div[self.gravitational_parameter, self.semi_latus_rectum]]
    IN  Scale3(velocity_magnitude, << -Sin[nu], self.eccentricity + Cos[nu], 0 >>)

\* the properties position and velocity
Elements_position(self) == Elements_vector_conditions(self, Elements_position_vector(self))
Elements_velocity(self) == Elements_vector_conditions(self, Elements_velocity_vector(self))

\* ------------------------------------------------------------------------
\* vectors.py: DetermineElements
\* ------------------------------------------------------------------------

DetermineElements(position_vector, velocity_vector, gravitational_parameter) ==
    [ position_vector |-> position_vector,
      velocity_vector |-> velocity_vector,
      gravitational_parameter |-> gravitational_parameter ]

DetermineElements_position_magnitude(self) == Norm(self.position_vector)
DetermineElements_velocity_magnitude(self) == Norm(self.velocity_vector)
DetermineElements_specific_angular_momentum_vector(self) ==
    angular_momentum(self.position_vector, self.velocity_vector)
DetermineElements_specific_angular_momentum_magnitude(self) ==
    Norm(DetermineElements_specific_angular_momentum_vector(self))
DetermineElements_node_vector(self) ==
    node_vector(DetermineElements_specific_angular_momentum_vector(self))
DetermineElements_node_magnitude(self) == Norm(DetermineElements_node_vector(self))
DetermineElements_eccentricity_vector(self) ==
    eccentricity_vector(self.position_vector, self.velocity_vector, self.gravitational_parameter,
                        DetermineElements_position_magnitude(self),
                        DetermineElements_velocity_magnitude(self))
DetermineElements_eccentricity(self) == Norm(DetermineElements_eccentricity_vector(self))

\* semi_latus_rectum is handed the angular momentum vector: numpy squares
\* and divides it element by element
DetermineElements_semi_latus_rectum(self) ==
    LET h == DetermineElements_specific_angular_momentum_vector(self)
    IN  << semi_latus_rectum(h[1], self.gravitational_parameter),
           semi_latus_rectum(h[2], self.gravitational_parameter),
           semi_latus_rectum(h[3], self.gravitational_parameter) >>

\* semi_major_axis(semi_latus_rectum=..., eccentricity=...): the branch
\* taken when radii is False; None at an eccentricity of exactly 1
semi_major_axis_elements(p, eccentricity) ==
    IF eccentricity # SCALE THEN Div[p, SCALE - Mul[eccentricity, eccentricity]] ELSE None

\* values as Python hands them back: a float, a numpy array, or None
float_(x) == [type |-> "float", value |-> << x >>]
ndarray(v) == [type |-> "ndarray", value |-> v]
NoneType == [type |-> "NoneType", value |-> << >>]

\* the array semi_latus_rectum divided element by element by 1 - e^2
DetermineElements_semi_major_axis(self) ==
    LET p == DetermineElements_semi_latus_rectum(self)
        e == DetermineElements_eccentricity(self)
    IN  IF e # SCALE
        THEN ndarray(<< semi_major_axis_elements(p[1], e), semi_major_axis_elements(p[2], e),
                        semi_major_axis_elements(p[3], e) >>)
        ELSE NoneType

DetermineElements_inclination(self) ==
    IF DetermineElements_specific_angular_momentum_magnitude(self) = 0 THEN None
    ELSE math_acos(Div[Dot(DetermineElements_specific_angular_momentum_vector(self),
                           << 0, 0, SCALE >>),
                       DetermineElements_specific_angular_momentum_magnitude(self)])

\* a faulty longitude_of_ascending_node that answers 0 for an undefined node
DetermineElements_longitude_of_ascending_node_zero(self) ==
    IF DetermineElements_node_magnitude(self) = 0 THEN 0
    ELSE math_acos(Div[Dot(DetermineElements_node_vector(self), << SCALE, 0, 0 >>),
                       DetermineElements_node_magnitude(self)])

DetermineElements_longitude_of_ascending_node(self) ==
    IF DetermineElements_node_magnitude(self) = 0 THEN None
    ELSE math_acos(Div[Dot(DetermineElements_node_vector(self), << SCALE, 0, 0 >>),
                       DetermineElements_node_magnitude(self)])

DetermineElements_argument_of_periapsis(self) ==
    IF DetermineElements_node_magnitude(self) = 0 \/ DetermineElements_eccentricity(self) = 0
    THEN None
    ELSE math_acos(Div[Dot(DetermineElements_node_vector(self),
                           DetermineElements_eccentricity_vector(self)),
                       Mul[DetermineElements_node_magnitude(self),
                           DetermineElements_eccentricity(self)]])

DetermineElements_true_anomaly(self) ==
    IF DetermineElements_eccentricity(self) = 0 \/ DetermineElements_position_magnitude(self) = 0
    THEN None
    ELSE math_acos(Div[Dot(DetermineElements_eccentricity_vector(self), self.position_vector),
                       Mul[DetermineElements_eccentricity(self),
                           DetermineElements_position_magnitude(self)]])

DetermineElements_longitude_of_periapsis(self) ==
    IF DetermineElements_eccentricity(self) = 0 THEN None
    ELSE IF DetermineElements_node_magnitude(self) = 0
    THEN Sqrt[Cos[Div[Dot(DetermineElements_eccentricity_vector(self), << SCALE, 0, 0 >>),
                      DetermineElements_eccentricity(self)]]]
    ELSE PyAdd(DetermineElements_longitude_of_ascending_node(self),
               DetermineElements_argument_of_periapsis(self))

DetermineElements_argument_of_latitude(self) ==
    IF DetermineElements_node_magnitude(self) = 0 \/ DetermineElements_position_magnitude(self) = 0
    THEN None
    ELSE math_acos(Div[Dot(DetermineElements_node_vector(self), self.position_vector),
                       Mul[DetermineElements_node_magnitude(self),
                           DetermineElements_position_magnitude(self)]])

DetermineElements_true_longitude(self) ==
    IF DetermineElements_position_magnitude(self) = 0 THEN None
    ELSE IF DetermineElements_node_magnitude(self) # 0 /\ DetermineElements_eccentricity(self) # 0
    THEN PyAdd(PyAdd(DetermineElements_longitude_of_ascending_node(self),
                     DetermineElements_argument_of_periapsis(self)),
               DetermineElements_true_anomaly(self))
    ELSE IF DetermineElements_node_magnitude(self) = 0 /\ DetermineElements_eccentricity(self) # 0
    THEN PyAdd(DetermineElements_longitude_of_periapsis(self),
               DetermineElements_true_anomaly(self))
    ELSE IF DetermineElements_node_magnitude(self) # 0 /\ DetermineElements_eccentricity(self) = 0
    THEN PyAdd(DetermineElements_longitude_of_ascending_node(self),
               DetermineElements_argument_of_latitude(self))
    ELSE math_acos(Div[Dot(self.position_vector, << SCALE, 0, 0 >>),
                       DetermineElements_position_magnitude(self)])

\* every property of the instance, read once
DetermineElements_read(self) ==
    [ node_magnitude |-> DetermineElements_node_magnitude(self),
      eccentricity |-> DetermineElements_eccentricity(self),
      semi_latus_rectum |-> ndarray(DetermineElements_semi_latus_rectum(self)),
      semi_major_axis |-> DetermineElements_semi_major_axis(self),
      inclination |-> DetermineElements_inclination(self),
      longitude_of_ascending_node |-> DetermineElements_longitude_of_ascending_node(self),
      argument_of_periapsis |-> DetermineElements_argument_of_periapsis(self),
      true_anomaly |-> DetermineElements_true_anomaly(self),
      longitude_of_periapsis |-> DetermineElements_longitude_of_periapsis(self),
      argument_of_latitude |-> DetermineElements_argument_of_latitude(self),
      true_longitude |-> DetermineElements_true_longitude(self) ]

\* ------------------------------------------------------------------------
\* maneuvers.py: delta_v, Hohmann, BiElliptic
\* ------------------------------------------------------------------------

delta_v(radius, semi_major_axis_transfer_orbit, gravitational_parameter) ==
    Abs(vis_viva(radius, semi_major_axis_transfer_orbit, gravitational_parameter)
        - circular_speed(radius, gravitational_parameter))

\* Hohmann.__init__ (the attributes are named without their leading underscore)
Hohmann(initial_radius, final_radius, gravitational_parameter, start_time) ==
    [ class |-> "Hohmann",
      initial_radius |-> initial_radius,
      final_radius |-> final_radius,
      gravitational_parameter |-> gravitational_parameter,
      start_time |-> start_time,
      semi_major_axis_transfer |-> semi_major_axis_radii(initial_radius, final_radius) ]

\* a faulty __delta_v that never reverses the sign
Hohmann_delta_v_unsigned(self, radius) ==
    delta_v(radius, self.semi_major_axis_transfer, self.gravitational_parameter)

\* Hohmann.__delta_v
Hohmann_delta_v(self, radius) ==
    LET d == delta_v(radius, self.semi_major_axis_transfer, self.gravitational_parameter)
    IN  IF self.initial_radius > self.final_radius THEN d * (-1) ELSE d

Hohmann_delta_v_1(self) == Hohmann_delta_v(self, self.initial_radius)
Hohmann_delta_v_2(self) == Hohmann_delta_v(self, self.final_radius)

\* BiElliptic.__init__
BiElliptic(initial_radius, final_radius, gravitational_parameter, transfer_apoapsis, start_time) ==
    [ class |-> "BiElliptic",
      initial_radius |-> initial_radius,
      final_radius |-> final_radius,
      gravitational_parameter |-> gravitational_parameter,
      transfer_apoapsis |-> transfer_apoapsis,
      start_time |-> start_time,
      semi_major_axis_one |-> semi_major_axis_radii(initial_radius, transfer_apoapsis),
      semi_major_axis_two |-> semi_major_axis_radii(final_radius, transfer_apoapsis) ]

BiElliptic_delta_v_1(self) ==
    delta_v(self.initial_radius, self.semi_major_axis_one, self.gravitational_parameter)

BiElliptic_delta_v_2(self) ==
    LET d == Abs(vis_viva(self.transfer_apoapsis, self.semi_major_axis_two,
                          self.gravitational_parameter)
                 - vis_viva(self.transfer_apoapsis, self.semi_major_axis_one,
                            self.gravitational_parameter))
    IN  IF self.initial_radius > self.final_radius THEN d * (-1) ELSE d

\* a faulty delta_v_3 without the factor -1
BiElliptic_delta_v_3_unsigned(self) ==
    delta_v(self.final_radius, self.semi_major_axis_two, self.gravitational_parameter)

BiElliptic_delta_v_3(self) ==
    (-1) * delta_v(self.final_radius, self.semi_major_axis_two, self.gravitational_parameter)

\* afunc.py: periapsis_length and apoapsis_length with semi_major_axis=False
periapsis_length(distance, eccentricity) == Div[distance, SCALE + eccentricity]
apoapsis_length(distance, eccentricity) == Div[distance, SCALE - eccentricity]

\* GeneralTransfer.__init__: the instance, or the exception it raises
GeneralTransfer(initial_radius, final_radius, gravitational_parameter, transfer_eccentricity, start_time) ==
    LET a == semi_major_axis_radii(initial_radius, final_radius)
        semi_latus_rectum_ == Mul[a, SCALE - Mul[transfer_eccentricity, transfer_eccentricity]]
        periapsis == periapsis_length(semi_latus_rectum_, transfer_eccentricity)
        apoapsis == apoapsis_length(semi_latus_rectum_, transfer_eccentricity)
        least == IF initial_radius < final_radius THEN initial_radius ELSE final_radius
        most == IF initial_radius > final_radius THEN initial_radius ELSE final_radius
    IN  IF periapsis > least \/ apoapsis < most
        THEN [ class |-> "Exception",
               message |-> "Invalid initial_radius, final_radius, and/or transfer_eccentricity value(s)." ]
        ELSE [ class |-> "GeneralTransfer",
               initial_radius |-> initial_radius,
               final_radius |-> final_radius,
               transfer_eccentricity |-> transfer_eccentricity,
               gravitational_parameter |-> gravitational_parameter,
               start_time |-> start_time,
               semi_latus_rectum |-> semi_latus_rectum_,
               angular_momentum_transfer |-> Sqrt[Mul[gravitational_parameter, semi_latus_rectum_]],
               initial_speed_circular |-> circular_speed(initial_radius, gravitational_parameter),
               initial_speed_transfer |-> vis_viva(initial_radius, a, gravitational_parameter),
               final_speed_transfer |-> vis_viva(final_radius, a, gravitational_parameter),
               final_speed_circular |-> circular_speed(final_radius, gravitational_parameter) ]

\* GeneralTransfer.__delta_v: the law of cosines on the two speeds
GeneralTransfer_delta_v(circle_speed, transfer_speed, radius, momentum) ==
    LET cosine_flight_path_angle == Div[momentum, Mul[radius, transfer_speed]]
    IN  Sqrt[Mul[circle_speed, circle_speed] + Mul[transfer_speed, transfer_speed]
             - Mul[Mul[2 * circle_speed, transfer_speed], cosine_flight_path_angle]]

GeneralTransfer_delta_v_1(self) ==
    GeneralTransfer_delta_v(self.initial_speed_circular, self.initial_speed_transfer,
                            self.initial_radius, self.angular_momentum_transfer)

GeneralTransfer_delta_v_2(self) ==
    GeneralTransfer_delta_v(self.final_speed_circular, self.final_speed_transfer,
                            self.final_radius, self.angular_momentum_transfer)

\* afunc.py: period
period(semi_major_axis, gravitational_parameter) ==
    Div[Mul[TWO_PI, Sqrt[Mul[Mul[semi_major_axis, semi_major_axis], semi_major_axis]]],
        Sqrt[gravitational_parameter]]

\* math.sinh(math.cosh(x)) overflows a float (OverflowError) when
\* cosh(x) > 710.47, that is |x| > 7.259
OverflowError == -(KILO * SCALE) - 7
CoshSinhMax == 7259 * KILO

\* flight_time, the hyperbolic branch: f0 and f1, the cosh of the quotient,
\* times -1 for a true anomaly between pi and 2*pi
hyperbolic_anomaly(eccentricity, nu) ==
    LET f == Cosh[Div[eccentricity + Cos[nu], SCALE + Mul[eccentricity, Cos[nu]]]]
    IN  IF PI < nu /\ nu < TWO_PI THEN -f ELSE f

\* a faulty flight_time that takes a negative eccentricity for an ellipse
flight_time_unchecked(eccentricity, semi_latus_rectum_, true_anomaly_one, true_anomaly_two, periapsis_num, gravitational_parameter) ==
    IF eccentricity < SCALE THEN [branch |-> "elliptical", value |-> 0]
    ELSE IF eccentricity = SCALE THEN [branch |-> "parabolic", value |-> 0]
    ELSE [branch |-> "hyperbolic", value |-> Complex]

\* afunc.py: flight_time.  The branch taken and the value returned: the
\* hyperbolic branch takes the root of a**3/mu with a = p/(1 - e**2) < 0, a
\* complex number, unless a hyperbolic function fails before; an
\* eccentricity below 0 raises and returns nothing.
flight_time(eccentricity, semi_latus_rectum_, true_anomaly_one, true_anomaly_two, periapsis_num, gravitational_parameter) ==
    LET divisor(nu) == SCALE + Mul[eccentricity, Cos[nu]]
        anomaly(nu) == Div[eccentricity + Cos[nu], divisor(nu)]
        a == Div[semi_latus_rectum_, SCALE - Mul[eccentricity, eccentricity]]
        root == Sqrt[Div[Mul[Mul[a, a], a], gravitational_parameter]]
        e0 == math_acos(anomaly(true_anomaly_one))
        e1 == math_acos(anomaly(true_anomaly_two))
        d(nu) == Mul[Sqrt[semi_latus_rectum_], Div[Sin[nu \div 2], Cos[nu \div 2]]]
        cube(x) == Mul[Mul[x, x], x]
        half(x) == Mul[semi_latus_rectum_, x] + RDiv[cube(x), 3]
    IN  IF 0 <= eccentricity /\ eccentricity < SCALE
        THEN [ branch |-> "elliptical",
               value |-> IF ValueError \in {e0, e1} THEN ValueError
                         ELSE Mul[root, 2 * periapsis_num * PI
                                        + (e1 - Mul[eccentricity, Sin[e1]])
                                        - (e0 - Mul[eccentricity, Sin[e0]])] ]
        ELSE IF eccentricity = SCALE
        THEN [ branch |-> "parabolic",
               value |-> Mul[Div[SCALE, 2 * Sqrt[gravitational_parameter]],
                             half(d(true_anomaly_two)) - half(d(true_anomaly_one))] ]
        ELSE IF eccentricity > SCALE
        THEN [ branch |-> "hyperbolic",
               value |-> IF \E nu \in {true_anomaly_one, true_anomaly_two} : divisor(nu) = 0
                         THEN ZeroDivisionError
                         ELSE IF \E nu \in {true_anomaly_one, true_anomaly_two} : Abs(eccentricity + Cos[nu]) > Mul[CoshSinhMax, Abs(divisor(nu))]
                         THEN OverflowError
                         ELSE Complex ]
        ELSE [ branch |-> "Exception", value |-> None ]

\* maneuvers.py: transfer_time with rounding=None
transfer_time(initial_radius, final_radius, eccentricity, gravitational_parameter) ==
    LET a == semi_major_axis_radii(initial_radius, final_radius)
        p == Mul[a, SCALE - Mul[eccentricity, eccentricity]]
        true_anomaly_one == math_acos(Div[Div[p, initial_radius] - SCALE, eccentricity])
        true_anomaly_two == math_acos(Div[Div[p, final_radius] - SCALE, eccentricity])
        time == flight_time(eccentricity, p, true_anomaly_one, true_anomaly_two, 0,
                            gravitational_parameter).value
    IN  IF eccentricity = 0 THEN RDiv[period(a, gravitational_parameter), 2]
        ELSE IF ValueError \in {true_anomaly_one, true_anomaly_two, time} THEN ValueError
        ELSE IF initial_radius > final_radius THEN time * (-1)
        ELSE time

\* a start_time: a number, a datetime.datetime (microseconds since an
\* epoch, the resolution of datetime.timedelta) or an object of another type
Number(value) == [type |-> "float", value |-> value]
Datetime(value) == [type |-> "datetime", value |-> value]
Text == [type |-> "str", value |-> 0]

\* the value of an impulses property: the tuple it returns or the exception
\* that reading it raises.  epochs are the times after the first, in order.
Impulses(start_time, epochs, delta_vs, burn_angles) ==
    LET later(t) == [type |-> start_time.type, value |-> start_time.value + t]
        errors == {ValueError, ZeroDivisionError}
        values == {epochs[i] : i \in DOMAIN epochs} \cup {delta_vs[i] : i \in DOMAIN delta_vs} \cup {burn_angles[i] : i \in DOMAIN burn_angles}
    IN  IF start_time.type \notin {"datetime", "float"}
        THEN [raised |-> "TypeError", impulses |-> << >>]
        ELSE IF ZeroDivisionError \in values
        THEN [raised |-> "ZeroDivisionError", impulses |-> << >>]
        ELSE IF ValueError \in values
        THEN [raised |-> "ValueError", impulses |-> << >>]
        ELSE [raised |-> "none",
              impulses |-> [i \in DOMAIN delta_vs |->
                               << IF i = 1 THEN start_time ELSE later(epochs[i - 1]),
                                  delta_vs[i], burn_angles[i] >>]]

Hohmann_transfer_time(self) ==
    transfer_time(self.initial_radius, self.final_radius, 0, self.gravitational_parameter)

Hohmann_impulses(self) ==
    Impulses(self.start_time, << Hohmann_transfer_time(self) >>,
             << Hohmann_delta_v_1(self), Hohmann_delta_v_2(self) >>, << 0, 0 >>)

BiElliptic_transfer_time_1(self) ==
    transfer_time(self.initial_radius, self.transfer_apoapsis, 0, self.gravitational_parameter)

BiElliptic_transfer_time_2(self) ==
    transfer_time(self.transfer_apoapsis, self.final_radius, 0, self.gravitational_parameter)

BiElliptic_impulses(self) ==
    Impulses(self.start_time,
             << BiElliptic_transfer_time_1(self),
                BiElliptic_transfer_time_1(self) + BiElliptic_transfer_time_2(self) >>,
             << BiElliptic_delta_v_1(self), BiElliptic_delta_v_2(self), BiElliptic_delta_v_3(self) >>,
             << 0, 0, 0 >>)

\* GeneralTransfer.__burn_angle
GeneralTransfer_burn_angle(circle_speed, transfer_speed, delta_v_) ==
    LET divisor == Mul[2 * delta_v_, circle_speed]
        cosine == Div[Mul[delta_v_, delta_v_] + Mul[circle_speed, circle_speed]
                      - Mul[transfer_speed, transfer_speed], divisor]
    IN  IF divisor = 0 THEN ZeroDivisionError
        ELSE IF math_acos(cosine) = ValueError THEN ValueError
        ELSE PI - math_acos(cosine)

GeneralTransfer_burn_angle_1(self) ==
    LET angle == GeneralTransfer_burn_angle(self.initial_speed_circular,
                                            self.initial_speed_transfer,
                                            GeneralTransfer_delta_v_1(self))
    IN  IF angle \in {ValueError, ZeroDivisionError} THEN angle
        ELSE IF self.initial_radius < self.final_radius THEN angle * (-1) ELSE angle

GeneralTransfer_burn_angle_2(self) ==
    LET angle == GeneralTransfer_burn_angle(self.final_speed_transfer,
                                            self.final_speed_circular,
                                            GeneralTransfer_delta_v_2(self))
    IN  IF angle \in {ValueError, ZeroDivisionError} THEN angle
        ELSE IF self.initial_radius > self.final_radius THEN angle * (-1) ELSE angle

GeneralTransfer_transfer_time(self) ==
    transfer_time(self.initial_radius, self.final_radius, self.transfer_eccentricity,
                  self.gravitational_parameter)

GeneralTransfer_impulses(self) ==
    Impulses(self.start_time, << GeneralTransfer_transfer_time(self) >>,
             << GeneralTransfer_delta_v_1(self), GeneralTransfer_delta_v_2(self) >>,
             << GeneralTransfer_burn_angle_1(self), GeneralTransfer_burn_angle_2(self) >>)

\* ------------------------------------------------------------------------
\* State
\* ------------------------------------------------------------------------

VARIABLES
    kp,     \* the frame of a kepler_problem call: arguments, locals, position
    gp,     \* the frame of a gauss_problem call
    el,     \* an Elements instance
    pos,    \* what reading el.position returned, with the branch taken
    vel,    \* what reading el.velocity returned, with the branch taken
    dobj,   \* a DetermineElements instance
    de,     \* the properties read from dobj
    mv,     \* a Hohmann, BiElliptic or GeneralTransfer instance
    rd,     \* the properties read from mv
    sm,     \* Simulate: the scenario, its clock and its sphere
    fc,     \* one call of a function of afunc.py and what it gave
    rad,    \* a DopplerRadar or Radar construction
    th      \* the threads reading one shared Elements instance

solverVars == << kp, gp >>
vectorVars == << el, pos, vel, dobj, de >>
maneuverVars == << mv, rd >>
otherVars == << sm, fc, rad, th >>
vars == << kp, gp, el, pos, vel, dobj, de, mv, rd, sm, fc, rad, th >>

\* no call in progress
Idle == [pc |-> "idle"]
\* no instance, nothing read
NoObject == [class |-> "None"]
Unread == [branch |-> "unread"]

SolversIdle == kp = Idle /\ gp = Idle
VectorsIdle == el = NoObject /\ pos = Unread /\ vel = Unread /\ dobj = NoObject /\ de = Unread
ManeuversIdle == mv = NoObject /\ rd = Unread
OthersIdle == sm = Idle /\ fc = Idle /\ rad = Idle /\ th = Idle

\* ------------------------------------------------------------------------
\* Inputs
\* ------------------------------------------------------------------------

\* a vector given in tenths of a distance (or speed) unit
Vec(a, b, c) == << a * (SCALE \div 10), b * (SCALE \div 10), c * (SCALE \div 10) >>

\* flight times: 0.2 and 1 .. MaxFlightTime time units
MaxFlightTime == 3
FlightTimes == {SCALE \div 5} \cup {k * SCALE : k \in 1..MaxFlightTime}

\* uncertainty: 0 and the default 0.0001
Uncertainties == {0, SCALE \div 10000}

\* trial_variable: the default 0.0 and 1.0
TrialVariables == {0, SCALE}

\* (position, velocity) of two orbits at the escape speed 2**0.5 less and
\* plus a few units of the fifth digit
NearEscapeOrbits ==
    { << Vec(10, 0, 0), << 0, 1414180, 0 >> >>,
      << Vec(10, 0, 0), << 0, 1414250, 0 >> >> }

\* (position, velocity) of circular, elliptic, hyperbolic and inclined orbits
KeplerOrbits ==
    NearEscapeOrbits \cup
    { << Vec(10, 0, 0), Vec(0, 10, 0) >>,
      << Vec(10, 0, 0), Vec(0, 12, 0) >>,
      << Vec(10, 10, 0), Vec(0, 10, 0) >>,
      << Vec(10, 0, 0), Vec(0, 15, 0) >>,
      << Vec(10, 0, 0), Vec(5, 10, 0) >>,
      << Vec(0, 10, 0), Vec(0, 0, 10) >>,
      << Vec(20, 0, 0), Vec(0, 10, 0) >> }

\* (initial_position, final_position): transfer angles of 90, 135 and 180 degrees
GaussPositions ==
    { << Vec(10, 0, 0), Vec(0, 10, 0) >>,
      << Vec(10, 0, 0), Vec(0, 20, 0) >>,
      << Vec(10, 0, 0), Vec(-10, 10, 0) >>,
      << Vec(10, 0, 0), Vec(-10, 0, 0) >> }

\* classical elements: angles of k * 60 degrees, k in 0 .. MaxAngleStep, in
\* radians, and of k * 90 degrees in degrees
MaxAngleStep == 5
Angles == {k * (PI \div 3) : k \in 0..MaxAngleStep}
DegreeAngles == {k * 90 * SCALE : k \in 0..3}
Eccentricities == {0, SCALE \div 2}
Inclinations == {0, PI \div 3, PI}
DegreeInclinations == {0, 90 * SCALE, 180 * SCALE}

\* (position, velocity) handed to DetermineElements directly: circular
\* equatorial, circular polar, elliptic equatorial, rectilinear, at rest;
\* the semi-major axis of the near-escape orbits lies beyond the range of
\* the fixed-point numbers
DetermineStates ==
    (KeplerOrbits \ NearEscapeOrbits) \cup
    { << Vec(10, 0, 0), Vec(0, 0, 10) >>,
      << Vec(10, 0, 0), Vec(10, 0, 0) >>,
      << Vec(10, 0, 0), Vec(0, 0, 0) >> }

\* radii of 1 .. MaxRadius distance units; the apoapsis of a bi-elliptic
\* transfer may lie beyond them
MaxRadius == 4
Radii == {k * SCALE : k \in 1..MaxRadius}
TransferApoapses == {k * SCALE : k \in 1..(MaxRadius + 2)}
GravitationalParameters == {SCALE, 4 * SCALE}
TransferEccentricities == {0, SCALE \div 2, (4 * SCALE) \div 5}

\* ------------------------------------------------------------------------
\* kepler_problem as a state machine
\* ------------------------------------------------------------------------

InitKepler ==
    /\ \E o \in KeplerOrbits, ft \in FlightTimes, x0 \in TrialVariables, u \in Uncertainties :
           kp = KeplerCall(o[1], o[2], ft, x0, u)
    /\ gp = Idle
    /\ VectorsIdle /\ ManeuversIdle /\ OthersIdle

\* one pass of the while loop: break, or the Newton update
KeplerIterate ==
    /\ kp.pc = "loop"
    /\ KeplerPass(kp, kp')
    /\ UNCHANGED << gp, vectorVars, maneuverVars, otherVars >>

\* the code after the loop, up to return
KeplerReturn ==
    /\ kp.pc = "done"
    /\ kp' = [kp EXCEPT !.ret = KeplerResult(kp), !.pc = "returned"]
    /\ UNCHANGED << gp, vectorVars, maneuverVars, otherVars >>

\* ------------------------------------------------------------------------
\* gauss_problem as a state machine
\* ------------------------------------------------------------------------

InitGauss ==
    /\ \E q \in GaussPositions, ft \in FlightTimes, u \in Uncertainties, short \in BOOLEAN :
           gp = GaussCall(q[1], q[2], ft, 0, u, short)
    /\ kp = Idle
    /\ VectorsIdle /\ ManeuversIdle /\ OthersIdle

\* one pass of the while loop: the raise, the break, or the Newton update
GaussIterate ==
    /\ gp.pc = "loop"
    /\ GaussPass(gp, gp')
    /\ UNCHANGED << kp, vectorVars, maneuverVars, otherVars >>

\* the code after the loop, up to return
GaussReturn ==
    /\ gp.pc = "done"
    /\ gp' = IF GaussG(gp) # 0
                /\ \E k \in 1..3 : \/ ~DivOK(GaussNumerators(gp)[1][k], GaussG(gp))
                                   \/ ~DivOK(GaussNumerators(gp)[2][k], GaussG(gp))
             THEN [gp EXCEPT !.pc = "unmodelled"]
             ELSE [gp EXCEPT !.ret = GaussResult(gp), !.pc = "returned"]
    /\ UNCHANGED << kp, vectorVars, maneuverVars, otherVars >>

\* ------------------------------------------------------------------------
\* The two solvers: one call of either, run to its end
\* ------------------------------------------------------------------------

InitSolver == InitKepler \/ InitGauss

NextSolver == KeplerIterate \/ KeplerReturn \/ GaussIterate \/ GaussReturn

SpecSolver == InitSolver /\ [][NextSolver]_vars

\* the interpreter runs the call on: a pass that can be taken is taken
FairSolver ==
    /\ SpecSolver
    /\ WF_vars(KeplerIterate) /\ WF_vars(KeplerReturn)
    /\ WF_vars(GaussIterate) /\ WF_vars(GaussReturn)

\* the call is over: it returned, raised, or left the range the model follows
KeplerOver == kp.pc \in {"returned", "raised", "unmodelled"}
GaussOver == gp.pc \in {"returned", "raised", "unmodelled"}

\* ------------------------------------------------------------------------
\* Elements and DetermineElements: an instance and the reads of its properties
\* ------------------------------------------------------------------------

\* an Elements instance with nothing read yet, or a DetermineElements instance
\* built from a state vector
InitVector ==
    /\ \/ /\ \/ \E e \in Eccentricities, i \in Inclinations, loan \in Angles,
                   pa \in Angles, ea \in Angles :
                    el = Elements(SCALE, e, i, loan, pa, ea, SCALE, FALSE)
             \/ \E e \in Eccentricities, i \in DegreeInclinations, loan \in DegreeAngles,
                   pa \in DegreeAngles, ea \in DegreeAngles :
                    el = Elements(SCALE, e, i, loan, pa, ea, SCALE, TRUE)
          /\ dobj = NoObject
       \/ /\ el = NoObject
          /\ \E q \in DetermineStates : dobj = DetermineElements(q[1], q[2], SCALE)
    /\ pos = Unread /\ vel = Unread /\ de = Unread
    /\ SolversIdle /\ ManeuversIdle /\ OthersIdle

\* a read of el.position: the vector returned, and _chosen_matrix assigned
ElementsPosition ==
    /\ el # NoObject
    /\ pos = Unread
    /\ LET r == Elements_position(el)
       IN  /\ pos' = [branch |-> r.branch, value |-> r.value]
           /\ el' = [el EXCEPT !.chosen_matrix = r.chosen_matrix]
    /\ UNCHANGED << vel, dobj, de, solverVars, maneuverVars, otherVars >>

\* a read of el.velocity
ElementsVelocity ==
    /\ el # NoObject
    /\ vel = Unread
    /\ LET r == Elements_velocity(el)
       IN  /\ vel' = [branch |-> r.branch, value |-> r.value]
           /\ el' = [el EXCEPT !.chosen_matrix = r.chosen_matrix]
    /\ UNCHANGED << pos, dobj, de, solverVars, maneuverVars, otherVars >>

\* DetermineElements(el.position, el.velocity, el.gravitational_parameter)
DetermineInit ==
    /\ dobj = NoObject
    /\ pos # Unread /\ vel # Unread
    /\ dobj' = DetermineElements(pos.value, vel.value, el.gravitational_parameter)
    /\ UNCHANGED << el, pos, vel, de, solverVars, maneuverVars, otherVars >>

\* the properties of dobj are read
DetermineRead ==
    /\ dobj # NoObject
    /\ de = Unread
    /\ de' = DetermineElements_read(dobj)
    /\ UNCHANGED << el, pos, vel, dobj, solverVars, maneuverVars, otherVars >>

NextVector == ElementsPosition \/ ElementsVelocity \/ DetermineInit \/ DetermineRead

SpecVector == InitVector /\ [][NextVector]_vars

\* ------------------------------------------------------------------------
\* Hohmann and BiElliptic: an instance and the reads of its delta v
\* ------------------------------------------------------------------------

NotRead == [raised |-> "unread", impulses |-> << >>]
NothingRead == [delta_v_1 |-> Unset, delta_v_2 |-> Unset, delta_v_3 |-> Unset, impulses |-> NotRead]

\* start times: 0 and 5 time units as numbers, a datetime, a string
StartTimes == {Number(0), Number(5 * SCALE), Datetime(7 * SCALE), Text}

InitManeuver ==
    /\ \/ \E ri \in Radii, rf \in Radii, mu \in GravitationalParameters, st \in StartTimes :
              mv = Hohmann(ri, rf, mu, st)
       \/ \E ri \in Radii, rf \in Radii, mu \in GravitationalParameters,
             ta \in TransferApoapses, st \in StartTimes :
              mv = BiElliptic(ri, rf, mu, ta, st)
       \/ \E ri \in Radii, rf \in Radii, mu \in GravitationalParameters,
             e \in TransferEccentricities, st \in StartTimes :
              mv = GeneralTransfer(ri, rf, mu, e, st)
    /\ rd = NothingRead
    /\ SolversIdle /\ VectorsIdle /\ OthersIdle

HohmannDeltaV1 ==
    /\ mv.class = "Hohmann"
    /\ rd.delta_v_1 = Unset
    /\ rd' = [rd EXCEPT !.delta_v_1 = Hohmann_delta_v_1(mv)]
    /\ UNCHANGED << mv, solverVars, vectorVars, otherVars >>

HohmannDeltaV2 ==
    /\ mv.class = "Hohmann"
    /\ rd.delta_v_2 = Unset
    /\ rd' = [rd EXCEPT !.delta_v_2 = Hohmann_delta_v_2(mv)]
    /\ UNCHANGED << mv, solverVars, vectorVars, otherVars >>

BiEllipticDeltaV1 ==
    /\ mv.class = "BiElliptic"
    /\ rd.delta_v_1 = Unset
    /\ rd' = [rd EXCEPT !.delta_v_1 = BiElliptic_delta_v_1(mv)]
    /\ UNCHANGED << mv, solverVars, vectorVars, otherVars >>

BiEllipticDeltaV2 ==
    /\ mv.class = "BiElliptic"
    /\ rd.delta_v_2 = Unset
    /\ rd' = [rd EXCEPT !.delta_v_2 = BiElliptic_delta_v_2(mv)]
    /\ UNCHANGED << mv, solverVars, vectorVars, otherVars >>

BiEllipticDeltaV3 ==
    /\ mv.class = "BiElliptic"
    /\ rd.delta_v_3 = Unset
    /\ rd' = [rd EXCEPT !.delta_v_3 = BiElliptic_delta_v_3(mv)]
    /\ UNCHANGED << mv, solverVars, vectorVars, otherVars >>

GeneralTransferDeltaV1 ==
    /\ mv.class = "GeneralTransfer"
    /\ rd.delta_v_1 = Unset
    /\ rd' = [rd EXCEPT !.delta_v_1 = GeneralTransfer_delta_v_1(mv)]
    /\ UNCHANGED << mv, solverVars, vectorVars, otherVars >>

GeneralTransferDeltaV2 ==
    /\ mv.class = "GeneralTransfer"
    /\ rd.delta_v_2 = Unset
    /\ rd' = [rd EXCEPT !.delta_v_2 = GeneralTransfer_delta_v_2(mv)]
    /\ UNCHANGED << mv, solverVars, vectorVars, otherVars >>

HohmannImpulses ==
    /\ mv.class = "Hohmann"
    /\ rd.impulses = NotRead
    /\ rd' = [rd EXCEPT !.impulses = Hohmann_impulses(mv)]
    /\ UNCHANGED << mv, solverVars, vectorVars, otherVars >>

BiEllipticImpulses ==
    /\ mv.class = "BiElliptic"
    /\ rd.impulses = NotRead
    /\ rd' = [rd EXCEPT !.impulses = BiElliptic_impulses(mv)]
    /\ UNCHANGED << mv, solverVars, vectorVars, otherVars >>

GeneralTransferImpulses ==
    /\ mv.class = "GeneralTransfer"
    /\ rd.impulses = NotRead
    /\ rd' = [rd EXCEPT !.impulses = GeneralTransfer_impulses(mv)]
    /\ UNCHANGED << mv, solverVars, vectorVars, otherVars >>

NextManeuver ==
    \/ HohmannDeltaV1 \/ HohmannDeltaV2 \/ HohmannImpulses
    \/ BiEllipticDeltaV1 \/ BiEllipticDeltaV2 \/ BiEllipticDeltaV3 \/ BiEllipticImpulses
    \/ GeneralTransferDeltaV1 \/ GeneralTransferDeltaV2 \/ GeneralTransferImpulses

SpecManeuver == InitManeuver /\ [][NextManeuver]_vars

\* ------------------------------------------------------------------------
\* Properties of the two solvers
\* ------------------------------------------------------------------------

\* C2: kepler_problem and gauss_problem terminate on every input (a
\* max-iteration bound ends the loop with a non-convergence error).  Stated
\* here for gauss_problem called with a positive uncertainty: the call is
\* eventually over.
C2_GaussTerminates == (gp.pc = "loop" /\ gp.uncertainty > 0) ~> GaussOver

\* C3: on return, the t of the final pass, computed from the returned
\* universal variable, lies strictly between flight_time - uncertainty and
\* flight_time + uncertainty; the loop is left only through that test; and the
\* results are computed from the c, s, t (and y) of that same pass.
C3_KeplerFinal ==
    kp.pc \in {"done", "returned"} =>
        /\ kp.flight_time - kp.uncertainty < kp.t
        /\ kp.t < kp.flight_time + kp.uncertainty
        /\ KeplerPass([kp EXCEPT !.pc = "loop", !.ret = << >>],
                      [kp EXCEPT !.pc = "done", !.ret = << >>])
        /\ kp.pc = "returned" =>
               kp.ret = KeplerResult(kp) /\ kp.ret[3] = kp.universal_variable

C3_GaussFinal ==
    gp.pc \in {"done", "returned"} =>
        /\ gp.flight_time - gp.uncertainty < gp.t
        /\ gp.t < gp.flight_time + gp.uncertainty
        /\ GaussPass([gp EXCEPT !.pc = "loop", !.ret = << >>],
                     [gp EXCEPT !.pc = "done", !.ret = << >>])
        /\ gp.pc = "returned" =>
               gp.ret = GaussResult(gp) /\ gp.ret[3] = gp.universal_variable

C3_ConvergedOnReturn == C3_KeplerFinal /\ C3_GaussFinal

\* both solvers have returned after at least one Newton update
C3_Witness ==
    \/ kp.pc = "returned" /\ kp.uncertainty > 0 /\ kp.universal_variable # 0 /\ kp.ret[4] # NaN
    \/ gp.pc = "returned" /\ gp.uncertainty > 0 /\ gp.universal_variable # 0 /\ gp.ret[1][1] # NaN

\* C4: gauss_problem raises 'y cannot be a negative value' when the y of a
\* pass is negative, before the x and t of that pass are computed, and never
\* raises it when y is non-negative.
C4_RaisedIffNegative ==
    gp.pc # "idle" =>
        ((gp.y # Unset /\ gp.y < 0)
            <=> (gp.pc = "raised" /\ gp.error = "y cannot be a negative value"))

C4_NegativeYRaises ==
    [][ /\ C4_RaisedIffNegative'
        /\ (gp.pc # "idle" /\ gp'.pc = "raised") =>
               gp.pc = "loop" /\ gp'.x = gp.x /\ gp'.t = gp.t ]_vars

\* a call has raised on a pass after the first
C4_Witness == gp.pc = "raised" /\ gp.y # Unset /\ gp.y < 0 /\ gp.x # Unset

\* C5: the direction sign is sign(pi - theta) on the short path and
\* sign(theta - pi) on the long path; A is >= 0 on the short path, <= 0 on
\* the long path, and the two paths give opposite A.
C5_DirectionSign ==
    (gp.pc # "idle" /\ gp.theta # Unset) =>
        /\ 0 <= gp.theta /\ gp.theta <= PI
        /\ gp.short => (gp.direction_of_motion = Sign(PI - gp.theta) /\ gp.a >= 0)
        /\ ~gp.short => (gp.direction_of_motion = Sign(gp.theta - PI) /\ gp.a <= 0)
        /\ gp.a = -(GaussCall(gp.initial_position, gp.final_position, gp.flight_time,
                              0, gp.uncertainty, ~gp.short).a)

\* a long-path call with a negative A has returned
C5_Witness == gp.pc = "returned" /\ ~gp.short /\ gp.a < 0

\* C6: the Newton update adds (flight_time - t)/dtdz to the universal
\* variable on the short path and subtracts it on the long path, and nothing
\* else changes the universal variable.
C6_ZUpdate ==
    [][ gp.pc # "idle" =>
          /\ gp.pc # "loop" => gp'.universal_variable = gp.universal_variable
          /\ gp'.universal_variable # gp.universal_variable =>
                LET z == gp.universal_variable
                    n == gp'
                    step == Div[n.flight_time - n.t, GaussDtdz(n.a, z, n.c, n.s, n.y, n.x)]
                IN  /\ gp.short => n.universal_variable = z + step
                    /\ ~gp.short => n.universal_variable = z - step ]_vars

\* a long-path call has converged away from its trial value
C6_Witness == gp.pc = "done" /\ ~gp.short /\ gp.universal_variable # 0

\* ------------------------------------------------------------------------
\* Properties of Elements and DetermineElements
\* ------------------------------------------------------------------------

\* the branch that the truth table (eccentricity = 0?, sin(inclination) = 0?) names
TruthTableBranch(e_is_zero, sin_i_is_zero) ==
    IF ~e_is_zero /\ ~sin_i_is_zero THEN "peri_to_geo"
    ELSE IF ~e_is_zero /\ sin_i_is_zero THEN "peri_to_geo_i"
    ELSE IF e_is_zero /\ ~sin_i_is_zero THEN "peri_to_geo_e"
    ELSE "vector"

\* the vector that the named branch makes of a perifocal vector
TruthTableValue(branch, self, vector) ==
    IF branch = "peri_to_geo"
    THEN MatVec(peri_to_geo(Elements_inclination(self),
                            Elements_longitude_of_ascending_node(self),
                            Elements_periapsis_angle(self)), vector)
    ELSE IF branch = "peri_to_geo_i"
    THEN MatVec(peri_to_geo_i(Elements_periapsis_angle(self)), vector)
    ELSE IF branch = "peri_to_geo_e"
    THEN MatVec(peri_to_geo_e(Elements_inclination(self),
                              Elements_longitude_of_ascending_node(self)), vector)
    ELSE vector

C7_UndefinedAngles ==
    de # Unread =>
        /\ de.node_magnitude = 0 =>
               /\ de.longitude_of_ascending_node = None
               /\ de.argument_of_periapsis = None
        /\ de.eccentricity = 0 =>
               /\ de.argument_of_periapsis = None
               /\ de.true_anomaly = None
        /\ None \notin {0, NaN}
        /\ de.longitude_of_periapsis # TypeError
        /\ de.argument_of_latitude # TypeError
        /\ de.true_longitude # TypeError

\* the properties of a circular equatorial orbit have been read
C7_Witness ==
    /\ de # Unread
    /\ de.node_magnitude = 0 /\ de.eccentricity = 0
    /\ de.longitude_of_ascending_node = None /\ de.true_anomaly = None
    /\ de.true_longitude >= 0

\* two angles (or eccentricities) agree within RoundTripTol / SCALE
RoundTripTol == 5 * KILO
Close(a, b) == Abs(a - b) <= RoundTripTol

\* the angles DetermineElements recovers from the vectors of el agree with the
\* angles el was built from (argument of periapsis and true anomaly are
\* compared on eccentric orbits only)
RoundTripAgrees ==
    /\ Close(de.eccentricity, el.eccentricity)
    /\ Close(de.inclination, Elements_inclination(el))
    /\ Close(de.longitude_of_ascending_node, Elements_longitude_of_ascending_node(el))
    /\ el.eccentricity # 0 =>
           /\ Close(de.argument_of_periapsis, Elements_periapsis_angle(el))
           /\ Close(de.true_anomaly, Elements_epoch_angle(el))

\* el is a valid inclined orbit whose properties went through DetermineElements
RoundTripDone ==
    /\ el # NoObject /\ de # Unread
    /\ 0 < Elements_inclination(el) /\ Elements_inclination(el) < PI

\* C8: for e in [0, 0.9], inclination in (0, pi) and Omega, omega, nu in
\* [0, 2*pi), Elements followed by DetermineElements recovers e, i, Omega,
\* omega and nu, angles of the upper half-range (pi, 2*pi) included.
C8_RoundTrip == RoundTripDone => RoundTripAgrees

\* the round trip does recover the angles that lie in [0, pi]
RoundTripLowerHalf ==
    (/\ RoundTripDone
     /\ Elements_longitude_of_ascending_node(el) <= PI
     /\ Elements_periapsis_angle(el) <= PI
     /\ Elements_epoch_angle(el) <= PI) => RoundTripAgrees

\* ------------------------------------------------------------------------
\* Properties of the maneuvers
\* ------------------------------------------------------------------------

\* C9 as claimed: each of delta_v_1, delta_v_2 and delta_v_3 of a BiElliptic
\* transfer is positive when the transfer is outward and negative when it is
\* inward.
C9_OneSignRule ==
    mv.class = "BiElliptic" =>
        \A k \in {"delta_v_1", "delta_v_2", "delta_v_3"} :
            rd[k] # Unset =>
                /\ mv.final_radius > mv.initial_radius => rd[k] > 0
                /\ mv.initial_radius > mv.final_radius => rd[k] < 0

\* C9 as the code has it: delta_v_1 is never negative and delta_v_3 never
\* positive, whatever the direction of the transfer; delta_v_2 alone takes
\* its sign from the comparison of initial_radius with final_radius.
C9_SignPerImpulse ==
    mv.class = "BiElliptic" =>
        /\ rd.delta_v_1 # Unset =>
               /\ rd.delta_v_1 >= 0
               /\ mv.transfer_apoapsis # mv.initial_radius => rd.delta_v_1 > 0
        /\ rd.delta_v_3 # Unset =>
               /\ rd.delta_v_3 <= 0
               /\ mv.transfer_apoapsis # mv.final_radius => rd.delta_v_3 < 0
        /\ rd.delta_v_2 # Unset =>
               /\ mv.initial_radius > mv.final_radius => rd.delta_v_2 < 0
               /\ mv.initial_radius < mv.final_radius => rd.delta_v_2 > 0
               /\ mv.initial_radius = mv.final_radius => rd.delta_v_2 = 0

\* the three delta v of an outward bi-elliptic transfer have been read
C9_Witness ==
    /\ mv.class = "BiElliptic"
    /\ mv.final_radius > mv.initial_radius
    /\ mv.transfer_apoapsis > mv.final_radius
    /\ rd.delta_v_1 > 0 /\ rd.delta_v_2 > 0
    /\ rd.delta_v_3 # Unset /\ rd.delta_v_3 < 0

\* C10: delta_v_1 and delta_v_2 of a Hohmann transfer have the same sign,
\* positive when final_radius > initial_radius and negative when
\* initial_radius > final_radius, and the magnitude
\* |vis_viva(r, a_transfer) - circular_speed(r)| at their radius.
C10_HohmannSigns ==
    mv.class = "Hohmann" =>
        LET mu == mv.gravitational_parameter
            a_transfer == RDiv[mv.initial_radius + mv.final_radius, 2]
            magnitude(r) == Abs(vis_viva(r, a_transfer, mu) - circular_speed(r, mu))
            outward == mv.final_radius > mv.initial_radius
            inward == mv.initial_radius > mv.final_radius
        IN  /\ rd.delta_v_1 # Unset =>
                   /\ Abs(rd.delta_v_1) = magnitude(mv.initial_radius)
                   /\ outward => rd.delta_v_1 > 0
                   /\ inward => rd.delta_v_1 < 0
            /\ rd.delta_v_2 # Unset =>
                   /\ Abs(rd.delta_v_2) = magnitude(mv.final_radius)
                   /\ outward => rd.delta_v_2 > 0
                   /\ inward => rd.delta_v_2 < 0

\* the two delta v of an inward Hohmann transfer have been read
C10_Witness ==
    /\ mv.class = "Hohmann"
    /\ mv.initial_radius > mv.final_radius
    /\ rd.delta_v_1 # Unset /\ rd.delta_v_1 < 0
    /\ rd.delta_v_2 # Unset /\ rd.delta_v_2 < 0

\* C11: delta_v_1 and delta_v_2 of a GeneralTransfer are negative when the
\* transfer goes from a larger to a smaller orbit and positive when it goes
\* from a smaller to a larger one.
C11_GeneralTransferSigns ==
    mv.class = "GeneralTransfer" =>
        \A k \in {"delta_v_1", "delta_v_2"} :
            rd[k] # Unset =>
                /\ mv.initial_radius > mv.final_radius => rd[k] < 0
                /\ mv.initial_radius < mv.final_radius => rd[k] > 0

\* what the code does: both delta v are square roots, never negative
GeneralTransferNeverNegative ==
    mv.class = "GeneralTransfer" =>
        \A k \in {"delta_v_1", "delta_v_2"} : rd[k] # Unset => rd[k] >= 0

\* the transfer times between the consecutive impulses of a maneuver
TransferTimesOf(self) ==
    IF self.class = "Hohmann" THEN << Hohmann_transfer_time(self) >>
    ELSE IF self.class = "BiElliptic"
    THEN << BiElliptic_transfer_time_1(self), BiElliptic_transfer_time_2(self) >>
    ELSE << GeneralTransfer_transfer_time(self) >>

ImpulsesOrdered ==
    LET triples == rd.impulses.impulses
    IN  /\ Len(triples) = Len(TransferTimesOf(mv)) + 1
        /\ triples[1][1] = mv.start_time
        /\ \A i \in 2..Len(triples) :
               /\ triples[i][1].type = mv.start_time.type
               /\ triples[i][1].value = triples[i - 1][1].value + TransferTimesOf(mv)[i - 1]
               /\ triples[i][1].value >= triples[i - 1][1].value

\* C14: once read, the impulses of a Hohmann, BiElliptic or GeneralTransfer
\* object with a numeric or datetime start_time are 2, 3 and 2 triples, the
\* first at start_time, each later one a transfer time after the one before
\* it, the epochs never decreasing.
C14_ImpulseSequence == (mv.class \in {"Hohmann", "BiElliptic", "GeneralTransfer"} /\ mv.start_time.type \in {"float", "datetime"} /\ rd.impulses # NotRead) => (rd.impulses.raised = "none" /\ ImpulsesOrdered)

\* what the code does: the sequence is as described whenever the read
\* returns, and the read raises only for a GeneralTransfer between equal
\* radii on a circle (a zero delta v divides in __burn_angle) or for a
\* start_time that is neither a number nor a datetime
ImpulsesOrderedWhenReturned == (mv.class \in {"Hohmann", "BiElliptic", "GeneralTransfer"} /\ rd.impulses # NotRead) => IF rd.impulses.raised = "none" THEN ImpulsesOrdered ELSE IF mv.start_time.type = "str" THEN rd.impulses.raised = "TypeError" ELSE (mv.class = "GeneralTransfer" /\ mv.initial_radius = mv.final_radius /\ mv.transfer_eccentricity = 0 /\ rd.impulses.raised = "ZeroDivisionError")

\* ------------------------------------------------------------------------
\* sim/rfunc.py, maneuvers.Maneuver, sim/sim.py: the stepping loop and its
\* impulses. Times are microseconds (SCALE per second) since the start time.
\* ------------------------------------------------------------------------

\* len(str(n)) of an integer n >= 0
StrLen(n) == IF n < 10 THEN 1 ELSE IF n < 100 THEN 2 ELSE IF n < KILO THEN 3 ELSE 4

Pow10(k) == IF k <= 0 THEN 1 ELSE IF k = 1 THEN 10 ELSE IF k = 2 THEN 100 ELSE KILO

\* integer_length: the digits before the decimal point, the sign left out
integer_length(num) == StrLen(Abs(num) \div SCALE)

\* round(x, 0) of x = b / 10^k, halves to the even neighbour
RoundHalfEven(b, k) ==
    LET q == b \div Pow10(k)
        r == b % Pow10(k)
    IN  IF 2 * r > Pow10(k) \/ (2 * r = Pow10(k) /\ q % 2 = 1) THEN q + 1 ELSE q

\* round_to_place on num >= 0: a is the integer part, b its last place
\* digits, c the rounded leading digit of b (one or two characters), d the
\* rest of a followed by c and filled with zeros up to the length of a;
\* None when place is not in 1 .. len(a)
round_to_place(num, place) ==
    LET a == num \div SCALE
        len_a == StrLen(a)
    IN  IF 0 < place /\ place <= len_a
        THEN LET b == a % Pow10(place)
                 c == RoundHalfEven(b, place - 1)
                 len_d == (len_a - place) + StrLen(c)
                 zeros == IF len_a > len_d THEN len_a - len_d ELSE 0
             IN  ((a \div Pow10(place)) * Pow10(StrLen(c)) + c) * Pow10(zeros)
        ELSE None

\* the maneuver classes __apply_impulse has a branch for in this model
KnownManeuvers == {"Hohmann", "BiElliptic"}

\* Maneuver.__init__(maneuver, **kwargs); given is what maneuver(**kwargs).impulses
\* returns. "None" stands for maneuver=None, "str" for a value that cannot
\* be called, "UserManeuver" for a class of the caller that has impulses.
Maneuver(maneuver, given) ==
    IF maneuver = "None" THEN [class |-> "Maneuver", maneuver |-> "None", has_impulses |-> FALSE]
    ELSE IF maneuver = "str" THEN [class |-> "TypeError"]
    ELSE [class |-> "Maneuver", maneuver |-> maneuver, has_impulses |-> TRUE, impulses |-> given]

\* Sphere.__init__, the part about maneuvers: the impulses and their times.
\* With maneuver=None, Maneuver.__init__ is not called: the impulses are
\* those given and the attribute maneuver is never assigned ("unset").
\* The velocity is given with respect to the primary.
Sphere(maneuver, given, velocity, primary_vel) ==
    LET m == Maneuver(maneuver, given)
    IN  IF m.class = "TypeError" THEN m
        ELSE [ class |-> "Sphere",
               maneuver |-> IF maneuver = "None" THEN "unset" ELSE maneuver,
               impulses |-> given,
               times |-> [i \in DOMAIN given |-> given[i][1]],
               vel |-> velocity + primary_vel,
               pos |-> 0,
               primary_vel |-> primary_vel ]

\* seconds2 of __apply_impulse, in microseconds where it is a number:
\* rounded for dt > 0; for dt < 0 the rounded value is thrown away
ImpulseSeconds(time, dt) ==
    IF dt > 0
    THEN LET r == round_to_place(time, integer_length(dt) + 1)
         IN  IF r = None THEN None ELSE r * SCALE
    ELSE time

\* Simulate.__apply_impulse from impulse index on; st holds the sphere, the
\* times at which each impulse was applied and the impulses passed over
RECURSIVE apply_impulse(_, _, _, _)
apply_impulse(st, index, now, dt) ==
    IF index > Len(st.sphere.times) \/ st.pc = "raised" THEN st
    ELSE IF now # ImpulseSeconds(st.sphere.times[index], dt)
    THEN apply_impulse(st, index + 1, now, dt)
    ELSE LET sphere == st.sphere
             v == sphere.impulses[index][2] * Sign(sphere.vel)
             applied == [st EXCEPT !.kicks[index] = Append(@, now)]
         IN  IF sphere.maneuver = "unset"
             THEN [st EXCEPT !.pc = "raised", !.error = "AttributeError"]
             ELSE IF sphere.maneuver \in KnownManeuvers
             THEN apply_impulse([applied EXCEPT !.sphere.vel = @ + v + sphere.primary_vel],
                                index + 1, now, dt)
             ELSE apply_impulse([applied EXCEPT !.passed = @ + 1], index + 1, now, dt)

\* one pass of the loop of __simulate_scenario while controls.running:
\* __update_spheres for the one sphere (no massive body acts on it), then
\* the clock moves on by dt
SimulateStep(st) ==
    LET kicked == apply_impulse(st, 1, st.time, st.dt)
        moved == [kicked EXCEPT !.sphere.pos = @ + Mul[kicked.sphere.vel, st.dt]]
    IN  IF kicked.pc = "raised" THEN kicked ELSE [moved EXCEPT !.time = @ + st.dt]

\* the scenario lasts MaxSimTime seconds of simulated time
MaxSimTime == 230
Dts == {SCALE \div 2, SCALE, 3 * SCALE, 10 * SCALE, -SCALE}
ManeuverStarts == {0, 5 * SCALE, 20 * SCALE}
TransferTimes == {(273 * SCALE) \div 10, 80 * SCALE, 176 * SCALE}
PrimaryVelocities == {0, SCALE \div 2}
\* "impulses" stands for a Sphere given impulses of its own and maneuver=None
RequestedManeuvers == {"Hohmann", "BiElliptic", "UserManeuver", "str", "None", "impulses"}

\* the impulses a maneuver class gives: two or three triples (epoch, delta v,
\* burn angle) from its start time and transfer times
ImpulsesOf(maneuver, start, transfer) ==
    IF maneuver = "BiElliptic"
    THEN << << start, SCALE \div 2, 0 >>, << start + transfer, SCALE \div 4, 0 >>,
            << start + 2 * transfer, -(SCALE \div 4), 0 >> >>
    ELSE << << start, SCALE \div 2, 0 >>, << start + transfer, SCALE \div 4, 0 >> >>

InitSim ==
    /\ \E maneuver \in RequestedManeuvers, start \in ManeuverStarts,
          transfer \in TransferTimes, dt \in Dts, primary_vel \in PrimaryVelocities :
          LET given == ImpulsesOf(maneuver, start, transfer)
              made == IF maneuver = "None" THEN Maneuver(maneuver, given)
                      ELSE IF maneuver = "impulses" THEN Sphere("None", given, SCALE, primary_vel)
                      ELSE Sphere(maneuver, given, SCALE, primary_vel)
          IN  sm = IF made.class = "Sphere"
                   THEN [ pc |-> "scenario", requested |-> maneuver, sphere |-> made,
                          dt |-> dt, time |-> 0, running |-> TRUE,
                          kicks |-> [i \in DOMAIN given |-> << >>], passed |-> 0,
                          error |-> "none" ]
                   ELSE IF made.class = "TypeError"
                   THEN [ pc |-> "raised", requested |-> maneuver, error |-> "TypeError" ]
                   ELSE [ pc |-> "container", requested |-> maneuver, object |-> made ]
    /\ fc = Idle /\ rad = Idle /\ th = Idle
    /\ SolversIdle /\ VectorsIdle /\ ManeuversIdle

SimTick ==
    /\ sm.pc = "scenario"
    /\ sm.running
    /\ Abs(sm.time) < MaxSimTime * SCALE
    /\ sm' = SimulateStep(sm)
    /\ UNCHANGED << fc, rad, th, solverVars, vectorVars, maneuverVars >>

\* the pause button of the controls
SimPause ==
    /\ sm.pc = "scenario"
    /\ sm' = [sm EXCEPT !.running = ~@]
    /\ UNCHANGED << fc, rad, th, solverVars, vectorVars, maneuverVars >>

NextSim == SimTick \/ SimPause

SpecSim == InitSim /\ [][NextSim]_vars

\* ------------------------------------------------------------------------
\* Properties of the stepping loop
\* ------------------------------------------------------------------------

\* C12: a maneuver of an unknown or missing type ends in an explicit typed
\* error; neither the Maneuver container nor the stepping loop passes over
\* it silently.
C12_UnknownTypeRaises ==
    (sm.pc # "idle" /\ sm.requested \notin KnownManeuvers) => sm.pc = "raised"

\* C13: with dt > 0 every impulse is applied exactly once, on the tick at
\* which the simulated time reaches or crosses its epoch.
C13_EveryImpulseOnce ==
    (sm.pc = "scenario" /\ sm.dt > 0) =>
        \A i \in DOMAIN sm.sphere.times :
            LET epoch == sm.sphere.times[i]
            IN  /\ Len(sm.kicks[i]) <= 1
                /\ \A k \in DOMAIN sm.kicks[i] :
                       sm.kicks[i][k] - sm.dt < epoch /\ epoch <= sm.kicks[i][k]
                /\ sm.time - sm.dt >= epoch => Len(sm.kicks[i]) = 1

\* what the code does: an impulse is applied on the tick whose time equals
\* its rounded epoch, and never twice
ImpulseAtRoundedEpoch ==
    sm.pc = "scenario" =>
        \A i \in DOMAIN sm.sphere.times :
            /\ Len(sm.kicks[i]) <= 1
            /\ \A k \in DOMAIN sm.kicks[i] :
                   sm.kicks[i][k] = ImpulseSeconds(sm.sphere.times[i], sm.dt)

\* ------------------------------------------------------------------------
\* afunc.py called directly: one call of vis_viva or flight_time
\* ------------------------------------------------------------------------

\* semi-major axes: negative for a hyperbola
SemiMajorAxes == {-2 * SCALE, -SCALE, SCALE \div 2, SCALE, 2 * SCALE, 3 * SCALE}
CallEccentricities == {-(SCALE \div 2), 0, SCALE \div 2, SCALE, (3 * SCALE) \div 2, 2 * SCALE}
\* true anomalies with a finite tan(nu/2): the multiples of 60 degrees, and
\* 210 and 255 degrees
TrueAnomalies == {nu \in Angles \cup {7 * (PI \div 6), 17 * (PI \div 12)} : Abs(Cos[nu \div 2]) > KILO}
Exceptions == {ValueError, ZeroDivisionError, OverflowError}

InitCall ==
    /\ \/ \E radius \in Radii, a \in SemiMajorAxes, mu \in GravitationalParameters :
              fc = [pc |-> "called", fn |-> "vis_viva", args |-> << radius, a, mu >>,
                    branch |-> "none", value |-> None]
       \/ \E e \in CallEccentricities, p \in {SCALE, 2 * SCALE}, nu1 \in TrueAnomalies,
             nu2 \in TrueAnomalies, k \in {0, 1}, mu \in GravitationalParameters :
              fc = [pc |-> "called", fn |-> "flight_time", args |-> << e, p, nu1, nu2, k, mu >>,
                    branch |-> "none", value |-> None]
    /\ sm = Idle /\ rad = Idle /\ th = Idle
    /\ SolversIdle /\ VectorsIdle /\ ManeuversIdle

VisVivaCall ==
    /\ fc.pc = "called" /\ fc.fn = "vis_viva"
    /\ fc' = [fc EXCEPT !.pc = "returned",
                         !.value = vis_viva(fc.args[1], fc.args[2], fc.args[3])]
    /\ UNCHANGED << sm, rad, th, solverVars, vectorVars, maneuverVars >>

FlightTimeCall ==
    /\ fc.pc = "called" /\ fc.fn = "flight_time"
    /\ \E r \in {flight_time(fc.args[1], fc.args[2], fc.args[3], fc.args[4], fc.args[5], fc.args[6])} :
          fc' = [fc EXCEPT !.pc = IF r.branch = "Exception" \/ r.value \in Exceptions
                                  THEN "raised" ELSE "returned",
                           !.branch = r.branch,
                           !.value = IF r.value \in Exceptions THEN None ELSE r.value]
    /\ UNCHANGED << sm, rad, th, solverVars, vectorVars, maneuverVars >>

NextCall == VisVivaCall \/ FlightTimeCall

SpecCall == InitCall /\ [][NextCall]_vars

\* C16: a call of vis_viva whose radicand mu*(2/r - 1/a) is negative ends in
\* an error and never returns a complex value.
C16_NegativeRadicandRaises == (fc.pc \notin {"idle", "called"} /\ fc.fn = "vis_viva" /\ Mul[fc.args[3], Div[2 * SCALE, fc.args[1]] - Div[SCALE, fc.args[2]]] < 0) => (fc.pc = "raised" /\ fc.value # Complex)

\* what the code does: it returns, with the root of a radicand >= 0 and a
\* complex number for a radicand < 0
VisVivaAlwaysReturns == (fc.pc \notin {"idle", "called"} /\ fc.fn = "vis_viva") => (fc.pc = "returned" /\ (fc.value = Complex <=> Mul[fc.args[3], Div[2 * SCALE, fc.args[1]] - Div[SCALE, fc.args[2]]] < 0))

\* C17: flight_time takes the elliptical branch for 0 <= e < 1, the
\* parabolic for e = 1, the hyperbolic for e > 1, and for e < 0 raises and
\* returns no time.
C17_RegimeSelectsBranch ==
    (fc.pc \notin {"idle", "called"} /\ fc.fn = "flight_time") =>
        LET e == fc.args[1]
        IN  /\ (0 <= e /\ e < SCALE) <=> (fc.branch = "elliptical")
            /\ (e = SCALE) <=> (fc.branch = "parabolic")
            /\ (e > SCALE) <=> (fc.branch = "hyperbolic")
            /\ (e < 0) <=> (fc.branch = "Exception")
            /\ (e < 0) => (fc.pc = "raised" /\ fc.value = None)

C17_Witness == fc.pc = "raised" /\ fc.fn = "flight_time" /\ fc.args[1] < 0

\* ------------------------------------------------------------------------
\* vectors.py: DopplerRadar and Radar.  Lengths here are in units of
\* 10000 km, so that the products of Radar.velocity stay inside 32 bits.
\* ------------------------------------------------------------------------

\* params.py: the class attributes of Earth that station_position reads
Earth == [ polar_radius |-> 635680, equatorial_radius |-> 637810, ellipsoid_eccentricity |-> 81820 ]

\* transf.py: the basic rotations, as tuples of rows
rotate_y(angle) == << << Cos[angle], 0, Sin[angle] >>, << 0, SCALE, 0 >>, << -Sin[angle], 0, Cos[angle] >> >>
rotate_z(angle) == << << Cos[angle], -Sin[angle], 0 >>, << Sin[angle], Cos[angle], 0 >>, << 0, 0, SCALE >> >>

\* np.dot of two matrices
MatMul(m, n) == [i \in 1..3 |-> [j \in 1..3 |-> Dot(m[i], << n[1][j], n[2][j], n[3][j] >>)]]

\* np.linalg.inv: the adjugate over the determinant
Inverse3(m) ==
    LET cof(i, j) == LET r == (1..3) \ {i}
                         c == (1..3) \ {j}
                         r1 == CHOOSE x \in r : \A y \in r : x <= y
                         r2 == CHOOSE x \in r : \A y \in r : x >= y
                         c1 == CHOOSE x \in c : \A y \in c : x <= y
                         c2 == CHOOSE x \in c : \A y \in c : x >= y
                         minor == Mul[m[r1][c1], m[r2][c2]] - Mul[m[r1][c2], m[r2][c1]]
                     IN  IF (i + j) % 2 = 0 THEN minor ELSE -minor
        det == Mul[m[1][1], cof(1, 1)] + Mul[m[1][2], cof(1, 2)] + Mul[m[1][3], cof(1, 3)]
    IN  [i \in 1..3 |-> [j \in 1..3 |-> Div[cof(j, i), det]]]

geo_to_topo(latitude, local_sidereal_time) ==
    MatMul(rotate_y(latitude - HALF_PI), rotate_z(-local_sidereal_time))

topo_to_geo(latitude, local_sidereal_time) == Inverse3(geo_to_topo(latitude, local_sidereal_time))

\* rfunc.py: station_position with degrees=False
station_position(latitude, elevation, local_sidereal_time) ==
    LET e2 == Mul[Earth.ellipsoid_eccentricity, Earth.ellipsoid_eccentricity]
        denominator == Sqrt[SCALE - Mul[e2, Mul[Sin[latitude], Sin[latitude]]]]
        x == Mul[Cos[latitude], Div[Earth.equatorial_radius, denominator] + elevation]
        z == Mul[Sin[latitude], Div[Mul[Earth.polar_radius, SCALE - e2], denominator] + elevation]
    IN  << Mul[x, Cos[local_sidereal_time]], Mul[x, Sin[local_sidereal_time]], z >>

\* DopplerRadar.__init__
DopplerRadar(positions, speeds, station_location, degrees) ==
    [ class |-> "DopplerRadar",
      distance |-> positions[1], azimuth |-> positions[2], altitude |-> positions[3],
      distance_dot |-> speeds[1], azimuth_dot |-> speeds[2], altitude_dot |-> speeds[3],
      elevation |-> station_location[1], latitude |-> station_location[2],
      local_sidereal_time |-> station_location[3],
      degrees |-> degrees ]

\* DopplerRadar.__deg
DopplerRadar_deg(self, attr) == IF self.degrees THEN math_radians(attr) ELSE attr

\* the properties distance, azimuth, altitude, distance_dot, azimuth_dot,
\* altitude_dot, latitude, elevation, local_sidereal_time: each is
\* self.__deg of its attribute
DopplerRadar_property(self, name) == DopplerRadar_deg(self, self[name])

DopplerRadar_topo_position(self) ==
    LET distance == DopplerRadar_property(self, "distance")
        azimuth == DopplerRadar_property(self, "azimuth")
        altitude == DopplerRadar_property(self, "altitude")
    IN  << Mul[Mul[-distance, Cos[altitude]], Cos[azimuth]],
           Mul[Mul[distance, Cos[altitude]], Sin[azimuth]],
           Mul[distance, Sin[altitude]] >>

DopplerRadar_geo_position(self) ==
    LET latitude == DopplerRadar_property(self, "latitude")
        local_sidereal_time == DopplerRadar_property(self, "local_sidereal_time")
    IN  Add3(MatVec(topo_to_geo(latitude, local_sidereal_time), DopplerRadar_topo_position(self)),
             station_position(latitude, DopplerRadar_property(self, "elevation"), local_sidereal_time))

\* Radar.__init__, first statements: the three geo_position vectors
Radar_positions(positions_one, positions_two, positions_three, station_location, degrees) ==
    [k \in 1..3 |-> DopplerRadar_geo_position(
                        DopplerRadar(<< positions_one, positions_two, positions_three >>[k],
                                     << 0, 0, 0 >>, station_location, degrees))]

\* a faulty __test_coplanar that never raises
Radar_test_coplanar_skipped(positions) == FALSE

\* Radar.__test_coplanar: TRUE when it raises
Radar_test_coplanar(positions) == Dot(positions[1], Cross(positions[2], positions[3])) # 0

\* Radar.__meas: the index of the chosen position and magnitude
Radar_meas(measurement) == IF measurement = 2 THEN 2 ELSE IF measurement = 3 THEN 3 ELSE 1

\* Radar.velocity; a float64 division by zero gives inf or nan, with a warning
\* and no exception (a divisor below the resolution of the model counts as zero)
Radar_velocity(self) ==
    LET r == self.positions
        m == self.magnitudes
        cross_1_2 == Cross(r[1], r[2])
        cross_2_3 == Cross(r[2], r[3])
        cross_3_1 == Cross(r[3], r[1])
        d_vec == Add3(Add3(cross_1_2, cross_2_3), cross_3_1)
        n_vec == Add3(Add3(Scale3(m[3], cross_1_2), Scale3(m[1], cross_2_3)), Scale3(m[2], cross_3_1))
        s_vec == Add3(Add3(Scale3(m[2] - m[3], r[1]), Scale3(m[3] - m[1], r[2])), Scale3(m[1] - m[2], r[3]))
        chosen == self.chosen_position
        divisor == Mul[Norm(d_vec), Norm(n_vec)]
        b == Cross(d_vec, r[chosen])
    IN  IF divisor = 0 \/ m[chosen] = 0 THEN << NaN, NaN, NaN >>
        ELSE Scale3(Sqrt[Div[self.gravitational_parameter, divisor]],
                    Add3(<< Div[b[1], m[chosen]], Div[b[2], m[chosen]], Div[b[3], m[chosen]] >>, s_vec))

\* measurements (distance, azimuth, altitude) and stations (elevation,
\* latitude, local sidereal time), the angles in radians or in degrees
RadarDistances == {SCALE \div 2, SCALE}
Measurements(degrees) ==
    IF degrees THEN {<< d, az, 30 * SCALE >> : d \in RadarDistances, az \in {0, 90 * SCALE}} \cup {<< SCALE \div 2, 0, 60 * SCALE >>}
    ELSE {<< d, az, PI \div 6 >> : d \in RadarDistances, az \in {0, HALF_PI}} \cup {<< SCALE \div 2, 0, PI \div 3 >>}
Stations(degrees) ==
    IF degrees THEN {<< SCALE \div 100, lat, lst >> : lat \in {0, 30 * SCALE}, lst \in {0, 60 * SCALE}}
    ELSE {<< SCALE \div 100, lat, lst >> : lat \in {0, PI \div 6}, lst \in {0, PI \div 3}}

NoVector == << >>

InitRadar ==
    /\ \E degrees \in BOOLEAN :
          \/ \E positions \in Measurements(degrees), station_location \in Stations(degrees) :
                rad = [ pc |-> "doppler",
                        self |-> DopplerRadar(positions, << 0, 0, 0 >>, station_location, degrees),
                        topo_position |-> NoVector, geo_position |-> NoVector ]
          \/ \E positions_one \in Measurements(degrees), positions_two \in Measurements(degrees),
                positions_three \in Measurements(degrees), station_location \in Stations(degrees),
                measurement \in 1..3 :
                rad = [ pc |-> "positions",
                        degrees |-> degrees,
                        positions |-> Radar_positions(positions_one, positions_two, positions_three,
                                                      station_location, degrees),
                        given |-> [measurement |-> measurement, gravitational_parameter |-> SCALE],
                        magnitudes |-> << >>, measurement |-> 0, gravitational_parameter |-> 0,
                        chosen_position |-> 0,
                        position |-> NoVector, velocity |-> NoVector ]
    /\ sm = Idle /\ fc = Idle /\ th = Idle
    /\ SolversIdle /\ VectorsIdle /\ ManeuversIdle

DopplerTopoPosition ==
    /\ rad.pc = "doppler" /\ rad.topo_position = NoVector
    /\ rad' = [rad EXCEPT !.topo_position = DopplerRadar_topo_position(rad.self)]
    /\ UNCHANGED << sm, fc, th, solverVars, vectorVars, maneuverVars >>

DopplerGeoPosition ==
    /\ rad.pc = "doppler" /\ rad.geo_position = NoVector
    /\ rad' = [rad EXCEPT !.geo_position = DopplerRadar_geo_position(rad.self)]
    /\ UNCHANGED << sm, fc, th, solverVars, vectorVars, maneuverVars >>

\* Radar.__init__: self.__test_coplanar()
RadarTestCoplanar ==
    /\ rad.pc = "positions"
    /\ rad' = [rad EXCEPT !.pc = IF Radar_test_coplanar(rad.positions) THEN "raised" ELSE "tested"]
    /\ UNCHANGED << sm, fc, th, solverVars, vectorVars, maneuverVars >>

\* Radar.__init__: the statements after the test
RadarMeas ==
    /\ rad.pc = "tested"
    /\ rad' = [rad EXCEPT !.pc = "constructed",
                          !.magnitudes = [k \in 1..3 |-> Norm(rad.positions[k])],
                          !.measurement = rad.given.measurement,
                          !.gravitational_parameter = rad.given.gravitational_parameter,
                          !.chosen_position = Radar_meas(rad.given.measurement)]
    /\ UNCHANGED << sm, fc, th, solverVars, vectorVars, maneuverVars >>

RadarPosition ==
    /\ rad.pc = "constructed" /\ rad.position = NoVector
    /\ rad' = [rad EXCEPT !.position = rad.positions[rad.chosen_position]]
    /\ UNCHANGED << sm, fc, th, solverVars, vectorVars, maneuverVars >>

RadarVelocity ==
    /\ rad.pc = "constructed" /\ rad.velocity = NoVector
    /\ rad' = [rad EXCEPT !.velocity = Radar_velocity(rad)]
    /\ UNCHANGED << sm, fc, th, solverVars, vectorVars, maneuverVars >>

NextRadar ==
    \/ DopplerTopoPosition \/ DopplerGeoPosition
    \/ RadarTestCoplanar \/ RadarMeas \/ RadarPosition \/ RadarVelocity

SpecRadar == InitRadar /\ [][NextRadar]_vars

\* the same measurement with its angles (not its lengths) converted to radians
InRadians(self) == [self EXCEPT !.degrees = FALSE, !.azimuth = math_radians(@), !.altitude = math_radians(@), !.azimuth_dot = math_radians(@), !.altitude_dot = math_radians(@), !.latitude = math_radians(@), !.local_sidereal_time = math_radians(@)]

\* C15: with degrees=True the positions of a DopplerRadar are those of
\* degrees=False on the same lengths and the angles converted to radians.
C15_DegreesConvertAnglesOnly ==
    (rad.pc = "doppler" /\ rad.self.degrees) =>
        /\ rad.topo_position # NoVector =>
              rad.topo_position = DopplerRadar_topo_position(InRadians(rad.self))
        /\ rad.geo_position # NoVector =>
              rad.geo_position = DopplerRadar_geo_position(InRadians(rad.self))

\* what the code does: every property goes through __deg, the range and the
\* elevation too, so the range is scaled by pi/180
DegreesConvertEverything == (rad.pc = "doppler" /\ rad.self.degrees /\ rad.topo_position # NoVector) => rad.topo_position = DopplerRadar_topo_position([InRadians(rad.self) EXCEPT !.distance = math_radians(@)])

\* C18: the choice of a measurement and every position or velocity of a
\* Radar come after the coplanarity test, and when the scalar triple product
\* of the three positions is not zero the construction raises: no
\* magnitudes, no chosen position, no position or velocity read.
C18_CoplanarityFirst ==
    rad.pc \in {"positions", "tested", "raised", "constructed"} =>
        /\ rad.pc \in {"positions", "raised"} =>
              (rad.chosen_position = 0 /\ rad.magnitudes = << >> /\ rad.position = NoVector /\ rad.velocity = NoVector)
        /\ (rad.pc # "positions" /\ Dot(rad.positions[1], Cross(rad.positions[2], rad.positions[3])) # 0) => rad.pc = "raised"
        /\ rad.pc = "raised" => Dot(rad.positions[1], Cross(rad.positions[2], rad.positions[3])) # 0

C18_Witness == rad.pc = "raised"

\* ------------------------------------------------------------------------
\* Elements: one instance shared by threads that read position and velocity.
\* A read is three steps of the interpreter: the perifocal vector is built,
\* __vector_conditions assigns self._chosen_matrix, and the product is taken
\* with the self._chosen_matrix found in the instance at that moment.
\* ------------------------------------------------------------------------

MaxThreads == 2
MaxReads == 2

NotCalled == [pc |-> "idle", kind |-> "none", vector |-> NoVector, result |-> NoVector, reads |-> 0]

InitThreads ==
    /\ \E e \in {0, SCALE \div 2}, i \in {0, PI \div 3}, ea \in {0, PI \div 3, 4 * (PI \div 3)} :
          th = [ pc |-> "shared",
                 self |-> Elements(SCALE, e, i, PI \div 3, 2 * (PI \div 3), ea, SCALE, FALSE),
                 threads |-> [k \in 1..MaxThreads |-> NotCalled] ]
    /\ sm = Idle /\ fc = Idle /\ rad = Idle
    /\ SolversIdle /\ VectorsIdle /\ ManeuversIdle

\* thread k starts a read of position or velocity: the perifocal vector
ThreadRead(k, kind) ==
    /\ th.threads[k].pc \in {"idle", "returned"}
    /\ th.threads[k].reads < MaxReads
    /\ th' = [th EXCEPT !.threads[k] =
                 [ pc |-> "entered", kind |-> kind,
                   vector |-> IF kind = "position" THEN Elements_position_vector(th.self)
                              ELSE Elements_velocity_vector(th.self),
                   result |-> NoVector, reads |-> @.reads + 1 ]]
    /\ UNCHANGED << sm, fc, rad, solverVars, vectorVars, maneuverVars >>

\* __vector_conditions: self._chosen_matrix = ..., or the else branch returns
ThreadAssign(k) ==
    /\ th.threads[k].pc = "entered"
    /\ \E r \in {Elements_vector_conditions(th.self, th.threads[k].vector)} :
          IF r.branch = "vector"
          THEN th' = [th EXCEPT !.threads[k].pc = "returned", !.threads[k].result = r.value]
          ELSE th' = [th EXCEPT !.threads[k].pc = "assigned", !.self.chosen_matrix = r.chosen_matrix]
    /\ UNCHANGED << sm, fc, rad, solverVars, vectorVars, maneuverVars >>

\* __vector_conditions: return self._chosen_matrix.dot(vector)
ThreadDot(k) ==
    /\ th.threads[k].pc = "assigned"
    /\ th' = [th EXCEPT !.threads[k].pc = "returned",
                        !.threads[k].result = MatVec(th.self.chosen_matrix, th.threads[k].vector)]
    /\ UNCHANGED << sm, fc, rad, solverVars, vectorVars, maneuverVars >>

NextThreads ==
    \/ \E k \in 1..MaxThreads, kind \in {"position", "velocity"} : ThreadRead(k, kind)
    \/ \E k \in 1..MaxThreads : ThreadAssign(k)
    \/ \E k \in 1..MaxThreads : ThreadDot(k)

SpecThreads == InitThreads /\ [][NextThreads]_vars

\* the instance as its constructor left it
AsConstructed(self) == [self EXCEPT !.chosen_matrix = NoMatrix]

\* every read that has returned gave the vector of a lone read of the
\* property on the instance as constructed
SameAsSequential ==
    \A k \in 1..MaxThreads :
        th.threads[k].pc = "returned" =>
            th.threads[k].result = Elements_vector_conditions(AsConstructed(th.self), th.threads[k].vector).value

\* C19: reads of position and velocity leave every attribute of the Elements
\* instance as the constructor set it, and repeated reads in any order return
\* the same vectors.
C19_ReadsArePure == th.pc = "shared" => (th.self = AsConstructed(th.self) /\ SameAsSequential)

\* what the code does: a read changes no attribute but _chosen_matrix, which
\* it sets to the transformation of the instance
OnlyChosenMatrixWritten == th.pc = "shared" => th.self.chosen_matrix \in {NoMatrix, Elements_vector_conditions(th.self, << 0, 0, 0 >>).chosen_matrix}

\* C20: under every interleaving of the reads of position and velocity by the
\* threads, each read returns the vector it returns when run alone.
C20_InterleavedReadsAgree == th.pc = "shared" => SameAsSequential

C20_Witness == th.pc = "shared" /\ th.self.chosen_matrix # NoMatrix /\ th.threads[1].pc = "returned" /\ th.threads[1].kind = "position" /\ th.threads[1].reads = MaxReads /\ th.threads[2].pc = "assigned" /\ th.threads[2].kind = "velocity"

\* ------------------------------------------------------------------------
\* The time step and time rate inputs of the controls
\* ------------------------------------------------------------------------

\* AttributeManager.convert_time_units, in seconds
convert_time_units(time_units) == IF time_units = "s" THEN 1 ELSE IF time_units = "min" THEN 60 ELSE 3600

\* AttributeManager.attr_dict, the entries about time; times are held in
\* thousandths of a second, the time rate is the number typed (dt = 1.0,
\* time_rate = 1, time_units = 's', time_rate_seconds = 1)
default_values == [pc |-> "controls", dt |-> KILO, time_rate |-> 1, time_units |-> "s", time_rate_seconds |-> KILO, dt_text |-> KILO, time_rate_text |-> 1]

\* what a winput holds as w.number: an int, a float, or None for a text that
\* is no number
Int_(n) == [type |-> "int", value |-> n * KILO]
Float_(thousandths) == [type |-> "float", value |-> thousandths]
NoNumber == [type |-> "NoneType", value |-> None]

\* the largest number typed into an input
MaxTyped == 100
TypedNumbers == {NoNumber, Float_(KILO \div 2), Float_(5 * (KILO \div 2)), Int_(1), Int_(2), Int_(10), Int_(MaxTyped)}

\* Controls.dt_Winput_func
dt_Winput_func(self, w) ==
    IF w.type \in {"int", "float"}
    THEN IF self.dt < self.time_rate_seconds
         THEN [self EXCEPT !.dt = w.value, !.dt_text = w.value]
         ELSE [self EXCEPT !.dt = self.time_rate_seconds, !.dt_text = self.time_rate_seconds]
    ELSE self

\* Controls.time_rate_Winput_func
time_rate_Winput_func(self, w) ==
    IF w.type = "int"
    THEN LET time_rate == w.value \div KILO
             time_rate_seconds == w.value * convert_time_units(self.time_units)
         IN  IF time_rate_seconds > self.dt
             THEN [self EXCEPT !.time_rate = time_rate, !.time_rate_seconds = time_rate_seconds, !.time_rate_text = time_rate]
             ELSE [self EXCEPT !.time_rate = time_rate, !.time_rate_seconds = self.dt, !.time_rate_text = self.dt]
    ELSE self

\* Controls.time_rate_units_func
time_rate_units_func(self, selected) == [self EXCEPT !.time_units = selected]

InitControls ==
    /\ sm = default_values
    /\ fc = Idle /\ rad = Idle /\ th = Idle
    /\ SolversIdle /\ VectorsIdle /\ ManeuversIdle

DtInput ==
    /\ sm.pc = "controls"
    /\ \E w \in TypedNumbers : sm' = dt_Winput_func(sm, w)
    /\ UNCHANGED << fc, rad, th, solverVars, vectorVars, maneuverVars >>

TimeRateInput ==
    /\ sm.pc = "controls"
    /\ \E w \in TypedNumbers : sm' = time_rate_Winput_func(sm, w)
    /\ UNCHANGED << fc, rad, th, solverVars, vectorVars, maneuverVars >>

TimeRateUnits ==
    /\ sm.pc = "controls"
    /\ \E selected \in {"s", "min", "hr"} : sm' = time_rate_units_func(sm, selected)
    /\ UNCHANGED << fc, rad, th, solverVars, vectorVars, maneuverVars >>

\* Controls.reset_button_func: default_values()
ResetButton ==
    /\ sm.pc = "controls"
    /\ sm' = default_values
    /\ UNCHANGED << fc, rad, th, solverVars, vectorVars, maneuverVars >>

NextControls == DtInput \/ TimeRateInput \/ TimeRateUnits \/ ResetButton

SpecControls == InitControls /\ [][NextControls]_vars

\* C30: from the defaults, the time step never exceeds the seconds of
\* simulated time per rendered frame: dt <= time_rate_seconds in every
\* state the inputs can reach.
C30_DtWithinTimeRate == sm.pc = "controls" => sm.dt <= sm.time_rate_seconds

\* the time rate input alone never leaves the time rate below the time step
TimeRateInputKeepsOrder == [][TimeRateInput /\ sm.dt <= sm.time_rate_seconds => sm'.dt <= sm'.time_rate_seconds]_vars

\* ------------------------------------------------------------------------
\* The stepping loop over several spheres: collisions and the pause button
\* ------------------------------------------------------------------------

\* a Sphere of the scene on one axis: no maneuver, no impulses, not massive
\* (so __update_forces gives vector(0, 0, 0) for every sphere)
Body(id, position, velocity, mass, real_radius) == [id |-> id, pos |-> position, vel |-> velocity, mass |-> mass, real_radius |-> real_radius, visible |-> TRUE]

\* the test of __check_collisions: the radii intersect
Intersect(sph1, sph2) == sph1.real_radius + sph2.real_radius > Abs(sph1.pos - sph2.pos)

\* f(left_over, destroyed) of __check_collisions on the spheres at indices
\* l and d of the list
collision_f(st, l, d) ==
    LET left_over == st.spheres[l]
        destroyed == st.spheres[d]
        v == Div[Mul[left_over.mass, left_over.vel] + Mul[destroyed.mass, destroyed.vel], left_over.mass + destroyed.mass]
    IN  [ spheres |-> [st.spheres EXCEPT ![l].vel = v, ![l].mass = @ + destroyed.mass, ![d].visible = FALSE],
          deleted |-> Append(st.deleted, destroyed.id) ]

\* Simulate.__check_collisions(sph1) with collisions on and the scenario
\* running, from sph2 = spheres[j] on; st holds the list and deleted
RECURSIVE check_collisions(_, _, _)
check_collisions(st, i, j) ==
    IF j > Len(st.spheres) THEN st
    ELSE LET sph1 == st.spheres[i]
             sph2 == st.spheres[j]
         IN  IF i # j /\ Intersect(sph1, sph2)
             THEN IF sph1.mass > sph2.mass THEN check_collisions(collision_f(st, i, j), i, j + 1)
                  ELSE IF sph1.mass < sph2.mass THEN check_collisions(collision_f(st, j, i), i, j + 1)
                  ELSE check_collisions([ spheres |-> [st.spheres EXCEPT ![i].visible = FALSE, ![j].visible = FALSE],
                                          deleted |-> st.deleted \o << sph1.id, sph2.id >> ], i, j + 1)
             ELSE check_collisions(st, i, j + 1)

\* list.remove(sph): the list without the first sphere that is sph; raised
\* (ValueError) when sph is not in the list
list_remove(spheres, id) ==
    LET at == {k \in DOMAIN spheres : spheres[k].id = id}
    IN  IF at = {} THEN [raised |-> TRUE, spheres |-> spheres]
        ELSE LET first == CHOOSE k \in at : \A other \in at : k <= other
             IN  [ raised |-> FALSE,
                   spheres |-> [k \in 1..(Len(spheres) - 1) |-> IF k < first THEN spheres[k] ELSE spheres[k + 1]] ]

\* for sph in deleted: self._spheres.remove(sph)
RECURSIVE remove_deleted(_, _)
remove_deleted(spheres, deleted) ==
    IF deleted = << >> THEN [raised |-> FALSE, spheres |-> spheres]
    ELSE LET rest == list_remove(spheres, Head(deleted))
         IN  IF rest.raised THEN rest ELSE remove_deleted(rest.spheres, Tail(deleted))

\* the scenario runs for MaxTicks passes of the loop
MaxTicks == 2
SceneMasses == {SCALE, 2 * SCALE}

\* two or three spheres of radius 1 along one axis: the second next to the
\* first or far from it, the third between the two or far from both
Scenes ==
    { << Body(1, 0, v1, m1, SCALE), Body(2, p2, v2, m2, SCALE) >> :
        v1 \in {0, SCALE \div 4}, v2 \in {0, -(SCALE \div 4)}, p2 \in {SCALE, 10 * SCALE},
        m1 \in SceneMasses, m2 \in SceneMasses }
    \cup
    { << Body(1, 0, v1, m1, SCALE), Body(2, p2, v2, m2, SCALE), Body(3, p3, 0, m3, SCALE) >> :
        v1 \in {0, SCALE \div 4}, v2 \in {0, -(SCALE \div 4)}, p2 \in {SCALE, 10 * SCALE},
        p3 \in {SCALE \div 2, 20 * SCALE}, m1 \in SceneMasses, m2 \in SceneMasses, m3 \in SceneMasses }

\* what is frozen while the simulation is paused
Frozen(st) == << st.spheres, st.time >>

\* the scenario building phase: the spheres and the collisions flag are
\* those held by the controls, dt and running are the defaults
InitScene ==
    /\ \E spheres \in Scenes, collisions \in BOOLEAN :
          sm = [ pc |-> "scene", scenario_running |-> FALSE, running |-> TRUE,
                 collisions |-> collisions, spheres |-> spheres, dt |-> SCALE, time |-> 0,
                 index |-> 0, phase |-> "head", deleted |-> << >>, ticks |-> 0,
                 before |-> spheres, at_pause |-> << spheres, 0 >> ]
    /\ fc = Idle /\ rad = Idle /\ th = Idle
    /\ SolversIdle /\ VectorsIdle /\ ManeuversIdle

\* Controls.run_scenario_button_func, the press that starts the scenario
RunScenarioButton ==
    /\ sm.pc = "scene"
    /\ ~sm.scenario_running
    /\ sm' = [sm EXCEPT !.scenario_running = TRUE]
    /\ UNCHANGED << fc, rad, th, solverVars, vectorVars, maneuverVars >>

\* Controls.pause_button_func, at any point of the loop
PauseButton ==
    /\ sm.pc = "scene"
    /\ sm' = IF sm.scenario_running
             THEN [sm EXCEPT !.running = ~@, !.at_pause = IF sm.running THEN Frozen(sm) ELSE @]
             ELSE sm
    /\ UNCHANGED << fc, rad, th, solverVars, vectorVars, maneuverVars >>

\* __simulate_scenario: if self._controls.running: ... __update_spheres()
\* is entered, deleted = []
TickStart ==
    /\ sm.pc = "scene" /\ sm.scenario_running /\ sm.phase = "head"
    /\ sm.ticks < MaxTicks
    /\ sm.running
    /\ sm' = [sm EXCEPT !.index = 1, !.phase = "check", !.deleted = << >>, !.before = sm.spheres]
    /\ UNCHANGED << fc, rad, th, solverVars, vectorVars, maneuverVars >>

\* __update_spheres for the sphere at index: the forces are zero, there are
\* no impulses; if self._collisions: deleted = self.__check_collisions(sph),
\* which waits while the controls are not running
SphereCheck ==
    /\ sm.pc = "scene" /\ sm.phase = "check"
    /\ sm.collisions => sm.running
    /\ sm' = IF sm.collisions
             THEN LET checked == check_collisions([spheres |-> sm.spheres, deleted |-> << >>], sm.index, 1)
                  IN  [sm EXCEPT !.spheres = checked.spheres, !.deleted = checked.deleted, !.phase = "move"]
             ELSE [sm EXCEPT !.phase = "move"]
    /\ UNCHANGED << fc, rad, th, solverVars, vectorVars, maneuverVars >>

\* __update_spheres: sph.pos += sph.vel*self._dt, then the next sphere
SphereMove ==
    /\ sm.pc = "scene" /\ sm.phase = "move"
    /\ sm' = [sm EXCEPT !.spheres[sm.index].pos = @ + Mul[sm.spheres[sm.index].vel, sm.dt],
                        !.index = @ + 1,
                        !.phase = IF sm.index < Len(sm.spheres) THEN "check" ELSE "remove"]
    /\ UNCHANGED << fc, rad, th, solverVars, vectorVars, maneuverVars >>

\* __update_spheres: the spheres of deleted are removed from the list; then
\* __simulate_scenario moves the clock on by dt
TickEnd ==
    /\ sm.pc = "scene" /\ sm.phase = "remove"
    /\ \E rest \in {remove_deleted(sm.spheres, sm.deleted)} :
          sm' = IF rest.raised
                THEN [sm EXCEPT !.pc = "raised", !.phase = "ValueError", !.spheres = rest.spheres]
                ELSE [sm EXCEPT !.spheres = rest.spheres, !.time = @ + sm.dt, !.index = 0,
                                !.phase = "head", !.ticks = @ + 1]
    /\ UNCHANGED << fc, rad, th, solverVars, vectorVars, maneuverVars >>

NextScene == RunScenarioButton \/ PauseButton \/ TickStart \/ SphereCheck \/ SphereMove \/ TickEnd

SpecScene == InitScene /\ [][NextScene]_vars

\* C21: while the simulation is paused nothing the loop owns changes: the
\* positions, velocities and masses of the spheres, the sphere list and the
\* simulated time are those of the moment the pause button was pressed, and
\* un-pausing resumes from exactly that state.
C21_PausedIsFrozen == (sm.pc = "scene" /\ ~sm.running) => Frozen(sm) = sm.at_pause

\* no pass of the loop starts while the simulation is paused
NoTickStartsPaused == [][(sm.pc = "scene" /\ sm.phase = "head" /\ ~sm.running) => Frozen(sm') = Frozen(sm)]_vars

\* the pause button changes running only while a scenario is running
PauseOnlyWhileScenarioRuns == [][(sm.pc = "scene" /\ ~sm.scenario_running) => sm'.running = sm.running]_vars

\* C24: after a pass of the loop every sphere destroyed in it is gone from
\* the sphere list, and the removal never fails because a sphere was put on
\* the list of the destroyed twice.
C24_DestroyedAreRemoved ==
    /\ (sm.pc = "scene" /\ sm.phase = "head") => \A k \in DOMAIN sm.spheres : sm.spheres[k].visible
    /\ ~(sm.pc = "raised" /\ sm.phase = "ValueError")

\* with two spheres in the scene the destroyed are removed
TwoSpheresAreRemoved ==
    (sm.pc = "scene" /\ sm.phase = "head" /\ Len(sm.before) = 2) => \A k \in DOMAIN sm.spheres : sm.spheres[k].visible

\* the momentum-weighted mean velocity of two spheres
MeanVelocity(a, b) == Div[Mul[a.mass, a.vel] + Mul[b.mass, b.vel], a.mass + b.mass]

\* C26: two overlapping spheres of unequal mass leave the heavier one, with
\* the sum of the two masses and the momentum-weighted mean of the two
\* velocities, so that the total mass is conserved; two of equal mass are
\* both destroyed.
C26_InelasticCollision ==
    (sm.pc = "scene" /\ sm.phase = "head" /\ sm.ticks = 1 /\ sm.collisions
        /\ Len(sm.before) = 2 /\ Intersect(sm.before[1], sm.before[2]))
    => LET a == sm.before[1]
           b == sm.before[2]
           heavier == IF a.mass > b.mass THEN a ELSE b
       IN  IF a.mass = b.mass THEN sm.spheres = << >>
           ELSE /\ Len(sm.spheres) = 1
                /\ sm.spheres[1].id = heavier.id
                /\ sm.spheres[1].mass = a.mass + b.mass
                /\ sm.spheres[1].vel = MeanVelocity(a, b)

\* the first call of __check_collisions in a pass leaves the heavier sphere
\* with the sum of the masses and the mean velocity
FirstCollisionIsInelastic ==
    (sm.pc = "scene" /\ sm.phase = "move" /\ sm.index = 1 /\ sm.collisions
        /\ Len(sm.before) = 2 /\ Intersect(sm.before[1], sm.before[2]) /\ sm.before[1].mass # sm.before[2].mass)
    => LET a == sm.before[1]
           b == sm.before[2]
           h == IF a.mass > b.mass THEN 1 ELSE 2
       IN  /\ sm.spheres[h].mass = a.mass + b.mass
           /\ sm.spheres[h].vel = MeanVelocity(a, b)
           /\ sm.spheres[h].visible /\ ~sm.spheres[3 - h].visible

\* two spheres of equal mass are both destroyed and both removed
EqualMassesBothDestroyed ==
    (sm.pc = "scene" /\ sm.phase = "head" /\ sm.ticks = 1 /\ sm.collisions
        /\ Len(sm.before) = 2 /\ Intersect(sm.before[1], sm.before[2]) /\ sm.before[1].mass = sm.before[2].mass)
    => sm.spheres = << >>

\* ------------------------------------------------------------------------
\* Properties of the impulses applied by the stepping loop
\* ------------------------------------------------------------------------

\* the delta v of the impulses applied so far, each along the velocity
RECURSIVE AppliedDeltaV(_, _)
AppliedDeltaV(st, index) ==
    IF index > Len(st.kicks) THEN 0
    ELSE Len(st.kicks[index]) * st.sphere.impulses[index][2] + AppliedDeltaV(st, index + 1)

\* C25: a sphere given impulses of its own and no maneuver class is stepped
\* without an error and has the delta v of every impulse applied at its
\* epoch added to its velocity.
C25_UserImpulsesApplied ==
    (sm.pc # "idle" /\ sm.requested = "impulses")
    => /\ sm.pc = "scenario"
       /\ sm.sphere.vel = SCALE + sm.sphere.primary_vel + AppliedDeltaV(sm, 1)

\* impulse index alone is applied in this step
OnlyKick(index) ==
    /\ sm.pc = "scenario" /\ sm'.pc = "scenario"
    /\ \A i \in DOMAIN sm.kicks : (Len(sm'.kicks[i]) > Len(sm.kicks[i])) <=> (i = index)

\* C28: an impulse of a Hohmann or bi-elliptic maneuver changes the velocity
\* of the sphere by exactly its delta v along the unit vector of the
\* velocity at that moment, whatever the velocity of the primary.
C28_ImpulseAlongVelocity == [][\A index \in 1..3 : (sm.pc = "scenario" /\ sm.requested \in KnownManeuvers /\ index \in DOMAIN sm.kicks /\ OnlyKick(index)) => sm'.sphere.vel - sm.sphere.vel = sm.sphere.impulses[index][2] * Sign(sm.sphere.vel)]_vars

\* with the primary at rest the change is the delta v along the velocity
ImpulseAlongVelocityAtRest == [][\A index \in 1..3 : (sm.pc = "scenario" /\ sm.requested \in KnownManeuvers /\ sm.sphere.primary_vel = 0 /\ index \in DOMAIN sm.kicks /\ OnlyKick(index)) => sm'.sphere.vel - sm.sphere.vel = sm.sphere.impulses[index][2] * Sign(sm.sphere.vel)]_vars

\* ------------------------------------------------------------------------
\* Properties of the hyperbolic branch of flight_time
\* ------------------------------------------------------------------------

\* true anomalies strictly between pi and 3*pi/2
ThirdQuadrant == {nu \in TrueAnomalies : PI < nu /\ 2 * nu < 3 * PI}

\* C22: for e = 2 the time of flight is a number that grows with the final
\* true anomaly over (pi, 3*pi/2), where the hyperbolic anomaly of the
\* endpoint is negated.
C22_HyperbolicFlightTimeIncreases ==
    (fc.pc # "idle" /\ fc.pc # "called" /\ fc.fn = "flight_time" /\ fc.args[1] = 2 * SCALE /\ fc.args[3] = 0 /\ fc.args[4] \in ThirdQuadrant)
    => /\ fc.pc = "returned"
       /\ fc.value # Complex
       /\ hyperbolic_anomaly(fc.args[1], fc.args[4]) < 0
       /\ \A nu \in ThirdQuadrant :
              nu < fc.args[4] => flight_time(fc.args[1], fc.args[2], fc.args[3], nu, fc.args[5], fc.args[6]).value < fc.value

\* the hyperbolic anomaly of an endpoint is negated exactly when the true
\* anomaly lies strictly between pi and 2*pi
NegatedInsidePiTwoPi ==
    (fc.pc = "returned" /\ fc.fn = "flight_time" /\ fc.branch = "hyperbolic")
    => \A k \in {3, 4} : (hyperbolic_anomaly(fc.args[1], fc.args[k]) < 0) <=> (PI < fc.args[k] /\ fc.args[k] < TWO_PI)

\* the hyperbolic branch never returns a real number
HyperbolicReturnsComplex ==
    (fc.pc = "returned" /\ fc.fn = "flight_time" /\ fc.branch = "hyperbolic") => fc.value = Complex

\* ------------------------------------------------------------------------
\* Properties of the check returned by kepler_problem
\* ------------------------------------------------------------------------

\* the check of a call carried out with exact c and s is 1 up to CheckSlack
\* units of the last digit of the arithmetic
CheckSlack == 10

\* C23: the consistency value f*dgdt - dfdt*g that kepler_problem returns
\* with the final vectors equals 1 up to the rounding of the arithmetic.
C23_CheckIsOne ==
    (kp.pc = "returned" /\ kp.ret[4] # NaN) => Abs(kp.ret[4] - SCALE) <= CheckSlack

\* where z is 0 or at least ZMin in size, the check is 1
CheckIsOneAwayFromZero ==
    (kp.pc = "returned" /\ kp.ret[4] # NaN /\ ZOK(kp.z)) => Abs(kp.ret[4] - SCALE) <= CheckSlack

\* ------------------------------------------------------------------------
\* Properties of the construction of a general transfer
\* ------------------------------------------------------------------------

\* the transfer ellipse with semi-major axis (initial_radius + final_radius)/2
\* reaches both circles: a(1 - e) <= min and a(1 + e) >= max
ReachesBothOrbits(initial_radius, final_radius, transfer_eccentricity) ==
    LET a == (initial_radius + final_radius) \div 2
        least == IF initial_radius < final_radius THEN initial_radius ELSE final_radius
        most == IF initial_radius > final_radius THEN initial_radius ELSE final_radius
    IN  a - Mul[a, transfer_eccentricity] <= least /\ a + Mul[a, transfer_eccentricity] >= most

\* C27: a general transfer whose ellipse reaches both circular orbits is
\* constructed, and none of its delta v, burn angles and transfer time fails
\* afterwards.
C27_ConstructedNeverFails ==
    /\ \A ri \in Radii, rf \in Radii, e \in TransferEccentricities :
           ReachesBothOrbits(ri, rf, e) => GeneralTransfer(ri, rf, SCALE, e, Number(0)).class = "GeneralTransfer"
    /\ (mv.class = "GeneralTransfer" /\ rd.impulses # NotRead)
           => rd.impulses.raised \notin {"ZeroDivisionError", "ValueError"}

\* the constructor raises whenever the ellipse does not reach both orbits
RaisesOutsideReach ==
    \A ri \in Radii, rf \in Radii, e \in TransferEccentricities :
        ~ReachesBothOrbits(ri, rf, e) => GeneralTransfer(ri, rf, SCALE, e, Number(0)).class = "Exception"

\* a general transfer between two different radii fails in no property
DifferentRadiiNeverFail ==
    (mv.class = "GeneralTransfer" /\ mv.initial_radius # mv.final_radius /\ rd.impulses # NotRead)
        => rd.impulses.raised \notin {"ZeroDivisionError", "ValueError"}

\* ------------------------------------------------------------------------
\* C29: DetermineElements.semi_latus_rectum is the scalar |h|^2 / mu taken
\* from the magnitude of the specific angular momentum, and
\* DetermineElements.semi_major_axis is the scalar p / (1 - e^2), or None
\* when the eccentricity is 1
\* ------------------------------------------------------------------------
ScalarSemiLatusRectum(self) ==
    semi_latus_rectum(DetermineElements_specific_angular_momentum_magnitude(self),
                      self.gravitational_parameter)

ScalarSemiMajorAxis(self) ==
    IF DetermineElements_eccentricity(self) = SCALE THEN NoneType
    ELSE float_(semi_major_axis_elements(ScalarSemiLatusRectum(self),
                                         DetermineElements_eccentricity(self)))

C29_ScalarShapeElements ==
    de # Unread =>
        /\ de.semi_latus_rectum = float_(ScalarSemiLatusRectum(dobj))
        /\ de.semi_major_axis = ScalarSemiMajorAxis(dobj)

\* what the properties do hand back: three numbers, one for each component
\* of the angular momentum vector; with the angular momentum along z the
\* third of them is the scalar
ArrayOfComponentSquares ==
    de # Unread =>
        LET h == DetermineElements_specific_angular_momentum_vector(dobj)
        IN  /\ de.semi_latus_rectum.type = "ndarray"
            /\ Len(de.semi_latus_rectum.value) = 3
            /\ \A k \in 1..3 : de.semi_latus_rectum.value[k]
                                 = semi_latus_rectum(h[k], dobj.gravitational_parameter)
            /\ (h[1] = 0 /\ h[2] = 0) =>
                   de.semi_latus_rectum.value[3] = ScalarSemiLatusRectum(dobj)

\* the semi-major axis is None exactly at an eccentricity of 1
NoneOnlyAtParabola ==
    de # Unread => (de.semi_major_axis = NoneType <=> de.eccentricity = SCALE)

A29_ParabolaRead == de # Unread /\ de.eccentricity = SCALE
A29_TiltedRead ==
    /\ de # Unread
    /\ de.eccentricity # SCALE
    /\ DetermineElements_specific_angular_momentum_vector(dobj)[1] # 0
====
